---- MODULE Spec2Model ----
(***************************************************************************)
(* Model of the interactive annotation / scoring engine of                 *)
(* pdf_corrections (src/app/ui/app_window.py, src/app/core/grading.py,     *)
(* src/app/ui/widgets/pdf_viewer.py).                                      *)
(*                                                                         *)
(* Conventions                                                             *)
(*  - lengths are integers in units of 1/6 pt, the size of one screen pixel *)
(*    at the largest zoom (6.0); thresholds given in pt are compared       *)
(*    exactly after scaling (dx > 0.2pt is 5 * dx > 6);                    *)
(*  - the floats of the code are read as exact reals;                      *)
(*  - scores are integers in units of 0.5 point (Rubric() = 2/1/0);        *)
(*  - a dotted code "2.3.1" is the sequence <<2, 3, 1>>, "" is <<>>;       *)
(*  - annotation ids (uuid4 in the code) are naturals, always chosen       *)
(*    different from every id still referenced anywhere in the state.      *)
(***************************************************************************)
EXTENDS Integers, Sequences, FiniteSets, TLC

VARIABLES
    scheme,             \* project.settings["grading_scheme"]: sequence of exercise nodes
    anns,               \* project.settings["annotations"][doc.id]: the live list
    out,                \* what the last aggregation that ran returned / displayed
    doc_open,           \* project and project.get_current_doc() are set
    subtab,             \* text of the selected tab of view_subtabs
    c_move_var,         \* "Mode deplacer une pastille"
    c_align_margin_var, \* "Aligner dans la marge"
    ann_tool_var,       \* none | ink | textbox | arrow | image | manual_score
    sel_mode_var,       \* selection mode check button
    selected_ann_ids,   \* _selected_ann_ids
    draw_kind, draw_page, draw_points, draw_start, draw_end,
    move_active, move_ann_id, move_anchor, move_snapshot, move_has_moved,
    pdf_mouse_down,     \* _pdf_mouse_down
    drag_active, drag_target_idx,
    regen_after_id,     \* TRUE when an after() callback _run is pending
    saved,              \* the annotation list as last written by project.save()
    render,             \* the last call of apply_annotations and the state it ran in
    overlay,            \* annotations of the saved overlay file (<<>> when none)
    next_id,            \* stands for uuid.uuid4(): ids are never reused
    button_held,        \* the mouse button is physically down over the page
    ptr,                \* last pointer event of the gesture in progress
    clicks,             \* pointer-downs so far
    burst,              \* bookkeeping of the current debounce burst
    artifact,           \* doc.variants["corrected"], project.current_variant, the PDF shown
    renderer_fails      \* apply_annotations raises when called now

scoreVars == <<scheme, anns, out>>
cfgVars == <<doc_open, subtab, c_move_var, c_align_margin_var, renderer_fails>>
modeVars == <<ann_tool_var, sel_mode_var>>
drawVars == <<draw_kind, draw_page, draw_points, draw_start, draw_end>>
moveVars == <<move_active, move_ann_id, move_anchor, move_snapshot, move_has_moved>>
corrVars == <<drag_active, drag_target_idx>>
regenVars == <<regen_after_id, render, burst, artifact>>
uiVars == <<cfgVars, modeVars, selected_ann_ids, drawVars, moveVars, pdf_mouse_down,
            corrVars, regenVars, saved, overlay, next_id, button_held, ptr, clicks>>
vars == <<scoreVars, uiVars>>

None == "None"

\* ------------------------------------------------------------------ bounds
MaxScoreAnns == 3   \* length of the lists the aggregations are applied to
MaxIds == 2         \* annotations created in one run
MaxClicks == 2      \* pointer-downs in one run
MaxInkPts == 3      \* points of one ink stroke

\* ------------------------------------------------------------- sequences
Range(s) == {s[i] : i \in DOMAIN s}

RECURSIVE SumSeq(_)
SumSeq(s) == IF s = <<>> THEN 0 ELSE Head(s) + SumSeq(Tail(s))

RECURSIVE SumSet(_, _)
SumSet(S, f) ==
    IF S = {} THEN 0
    ELSE LET x == CHOOSE y \in S : TRUE IN f[x] + SumSet(S \ {x}, f)

\* the elements of s whose index is in keep, in order
SelectIdx(s, keep) ==
    LET F[i \in 0..Len(s)] ==
            IF i = 0 THEN <<>>
            ELSE IF i \in keep THEN Append(F[i - 1], s[i]) ELSE F[i - 1]
    IN F[Len(s)]

\* dict helpers (python dict as a function with a finite domain)
DictGet(d, k, dflt) == IF k \in DOMAIN d THEN d[k] ELSE dflt
DictPut(d, k, v) == [x \in (DOMAIN d) \cup {k} |-> IF x = k THEN v ELSE d[x]]
EmptyDict == [x \in {} |-> 0]

\* ------------------------------------------------------- grading scheme
\* Optional[Rubric]: has = FALSE is None
NoRubric == [has |-> FALSE, good |-> 0, partial |-> 0, bad |-> 0]
Rubric(g, p, b) == [has |-> TRUE, good |-> g, partial |-> p, bad |-> b]
DefaultRubric == Rubric(2, 1, 0)
\* label: 0 is the label given at creation, another number a label typed in
Node(code, rubric, children) ==
    [code |-> code, label |-> 0, rubric |-> rubric, children |-> children]

\* Node.level(): max(0, len(code.split(".")) - 1); "".split(".") has one element
Level(n) == IF Len(n.code) = 0 THEN 0 ELSE Len(n.code) - 1

\* code.split(".", 1)[0] of a non-empty code: the code of its exercise
ExKey(code) == <<code[1]>>

\* total_good(node): sum over the childless depth-1/2 nodes below node of
\* rubric.good, 1.0 (= 2 half points) when the leaf has no rubric
RECURSIVE total_good(_)
total_good(n) ==
    IF n.children # <<>>
    THEN SumSeq([i \in DOMAIN n.children |-> total_good(n.children[i])])
    ELSE IF Level(n) \in {1, 2}
         THEN IF n.rubric.has THEN n.rubric.good ELSE 2
         ELSE 0

\* max_by_ex of _build_final_note_text: later exercises overwrite earlier
\* ones with the same code (python dict assignment in list order)
MaxByEx(sch) ==
    LET F[i \in 0..Len(sch)] ==
            IF i = 0 THEN EmptyDict
            ELSE DictPut(F[i - 1], sch[i].code, total_good(sch[i]))
    IN F[Len(sch)]

\* _scheme_max_total: sum(total_good(ex) for ex in scheme.exercises)
scheme_max_total(sch) == SumSeq([i \in DOMAIN sch |-> total_good(sch[i])])

\* find_node: first node with that code, depth first; <<>> is None
RECURSIVE find_in_nodes(_, _)
find_in_nodes(nodes, code) ==
    IF nodes = <<>> THEN <<>>
    ELSE IF Head(nodes).code = code THEN <<Head(nodes)>>
    ELSE LET r == find_in_nodes(Head(nodes).children, code)
         IN IF r # <<>> THEN r ELSE find_in_nodes(Tail(nodes), code)

find_node(sch, code) == find_in_nodes(sch, code)

\* points_for: rubric (or Rubric() when the node has none) entry of result
points_for(sch, leaf_code, result) ==
    LET found == find_node(sch, leaf_code)
        rub == IF found[1].rubric.has THEN found[1].rubric ELSE DefaultRubric
    IN IF found = <<>> THEN 0
       ELSE IF result = "good" THEN rub.good
       ELSE IF result = "partial" THEN rub.partial
       ELSE rub.bad

\* ---- editing operations; each returns [ok, scheme], ok = FALSE standing
\* for the ValueError raised
\* the node object found by find_node is changed in place: the first node with
\* that code, depth first, becomes new
RECURSIVE put_in_nodes(_, _, _)
put_in_nodes(nodes, code, new) ==
    IF nodes = <<>> THEN <<>>
    ELSE IF Head(nodes).code = code THEN <<new>> \o Tail(nodes)
    ELSE IF find_in_nodes(Head(nodes).children, code) # <<>>
    THEN <<[Head(nodes) EXCEPT !.children = put_in_nodes(@, code, new)]>> \o Tail(nodes)
    ELSE <<Head(nodes)>> \o put_in_nodes(Tail(nodes), code, new)

\* the parent returned by find_node (<<>> is None)
RECURSIVE find_parent(_, _, _)
find_parent(nodes, parent, code) ==
    IF nodes = <<>> THEN <<>>
    ELSE IF Head(nodes).code = code THEN parent
    ELSE IF find_in_nodes(Head(nodes).children, code) # <<>>
    THEN find_parent(Head(nodes).children, <<Head(nodes)>>, code)
    ELSE find_parent(Tail(nodes), parent, code)

\* c.code.startswith(parent.code + ".")
HasPrefix(code, pre) ==
    Len(code) > Len(pre) /\ SubSeq(code, 1, Len(pre)) = pre

\* variant: the next index is the number of children plus one
next_index_by_count(children, pre, k) == Len(children) + 1

\* max(indices) + 1, or 1 without indices; the index is part k of the code
next_index(children, pre, k) ==
    LET idx == {children[i].code[k] : i \in {j \in DOMAIN children :
                    HasPrefix(children[j].code, pre) /\ Len(children[j].code) >= k}}
    IN IF idx = {} THEN 1 ELSE (CHOOSE m \in idx : \A n \in idx : n <= m) + 1

\* only codes without a dot are numbers (int(ex.code))
add_exercise(sch) ==
    LET idx == {sch[i].code[1] : i \in {j \in DOMAIN sch : Len(sch[j].code) = 1}}
        new_i == IF idx = {} THEN 1 ELSE (CHOOSE m \in idx : \A n \in idx : n <= m) + 1
    IN [ok |-> TRUE,
        scheme |-> Append(sch, Node(<<new_i>>, NoRubric,
                        <<Node(<<new_i, 1>>, DefaultRubric, <<>>),
                          Node(<<new_i, 2>>, DefaultRubric, <<>>)>>))]

add_sublevel(sch, exercise_code) ==
    LET found == find_node(sch, exercise_code)
        ex == found[1]
        new == Node(ex.code \o <<next_index(ex.children, ex.code, 2)>>, DefaultRubric, <<>>)
    IN IF found = <<>> \/ Level(found[1]) # 0 THEN [ok |-> FALSE, scheme |-> sch]
       ELSE [ok |-> TRUE,
             scheme |-> put_in_nodes(sch, exercise_code,
                                     [ex EXCEPT !.children = Append(@, new)])]

\* variant: the rubric is cleared before the level is tested
add_subsublevel_clears_first(sch, sublevel_code) ==
    LET found == find_node(sch, sublevel_code)
        node == found[1]
        new == Node(node.code \o <<next_index(node.children, node.code, 3)>>,
                    DefaultRubric, <<>>)
    IN IF found = <<>> THEN [ok |-> FALSE, scheme |-> sch]
       ELSE IF Level(node) # 1
       THEN [ok |-> FALSE,
             scheme |-> put_in_nodes(sch, sublevel_code, [node EXCEPT !.rubric = NoRubric])]
       ELSE [ok |-> TRUE,
             scheme |-> put_in_nodes(sch, sublevel_code,
                            [node EXCEPT !.rubric = NoRubric, !.children = Append(@, new)])]

add_subsublevel(sch, sublevel_code) ==
    LET found == find_node(sch, sublevel_code)
        node == found[1]
        new == Node(node.code \o <<next_index(node.children, node.code, 3)>>,
                    DefaultRubric, <<>>)
    IN IF found = <<>> \/ Level(found[1]) # 1 THEN [ok |-> FALSE, scheme |-> sch]
       ELSE [ok |-> TRUE,
             scheme |-> put_in_nodes(sch, sublevel_code,
                            [node EXCEPT !.rubric = NoRubric, !.children = Append(@, new)])]

\* an unknown code is not an error
set_label(sch, code, label) ==
    LET found == find_node(sch, code)
    IN [ok |-> TRUE,
        scheme |-> IF found = <<>> THEN sch
                   ELSE put_in_nodes(sch, code, [found[1] EXCEPT !.label = label])]

set_rubric(sch, code, good, partial, bad) ==
    LET found == find_node(sch, code)
    IN IF found = <<>> \/ found[1].children # <<>> \/ Level(found[1]) = 0
       THEN [ok |-> FALSE, scheme |-> sch]
       ELSE [ok |-> TRUE,
             scheme |-> put_in_nodes(sch, code,
                            [found[1] EXCEPT !.rubric = Rubric(good, partial, bad)])]

delete_exercise(sch, ex_code) ==
    [ok |-> TRUE, scheme |-> SelectIdx(sch, {i \in DOMAIN sch : sch[i].code # ex_code})]

\* every child of the parent with that code goes, or every exercise with it
delete_node(sch, code) ==
    LET found == find_node(sch, code)
        parent == find_parent(sch, <<>>, code)
    IN IF found = <<>> THEN [ok |-> TRUE, scheme |-> sch]
       ELSE IF parent = <<>> THEN delete_exercise(sch, code)
       ELSE [ok |-> TRUE,
             scheme |-> put_in_nodes(sch, parent[1].code,
                            [parent[1] EXCEPT !.children =
                                SelectIdx(@, {i \in DOMAIN @ : @[i].code # code})])]

\* ---- schemes
Leaf(code, g, p, b) == Node(code, Rubric(g, p, b), <<>>)

\* make_default_scheme(2)
SchemeDefault2 ==
    << Node(<<1>>, NoRubric, <<Leaf(<<1, 1>>, 2, 1, 0), Leaf(<<1, 2>>, 2, 1, 0)>>),
       Node(<<2>>, NoRubric, <<Leaf(<<2, 1>>, 2, 1, 0), Leaf(<<2, 2>>, 2, 1, 0)>>) >>

\* exercise 1 with leaves worth 2 and 3 points, exercise 3 with a depth-2
\* level and a rubric-less leaf (after add_subsublevel + delete_node)
SchemeEdited ==
    << Node(<<1>>, NoRubric, <<Leaf(<<1, 1>>, 4, 2, 0), Leaf(<<1, 2>>, 6, 2, 0)>>),
       Node(<<3>>, NoRubric,
            << Node(<<3, 1>>, NoRubric, <<Leaf(<<3, 1, 1>>, 2, 1, 0), Leaf(<<3, 1, 2>>, 3, 1, 0)>>),
               Node(<<3, 2>>, NoRubric, <<>>) >>) >>

\* an exercise whose sub-levels were all deleted
SchemeBareExercise ==
    << Node(<<1>>, NoRubric, <<Leaf(<<1, 1>>, 2, 1, 0)>>),
       Node(<<2>>, NoRubric, <<>>) >>

SchemePool == {SchemeDefault2, SchemeEdited, SchemeBareExercise}

\* ---------------------------------------------------------- annotations
CircleKinds == {"score_circle", "manual_score"}

ScoreCircle(id, page, x, y, code, result, points) ==
    [id |-> id, kind |-> "score_circle", page |-> page, x_pt |-> x, y_pt |-> y,
     exercise_code |-> code, result |-> result, points |-> points,
     radius |-> 54, tag |-> ""]

ManualScore(id, page, x, y, code, points) ==
    [id |-> id, kind |-> "manual_score", page |-> page, x_pt |-> x, y_pt |-> y,
     exercise_code |-> code, points |-> points, radius |-> 66, tag |-> "manual_score"]

\* text is kept as its number of lines; recap holds the figures of a final note
TextBox(id, page, rect, nlines, recap, tag) ==
    [id |-> id, kind |-> "textbox", page |-> page, rect |-> rect,
     nlines |-> nlines, recap |-> recap, tag |-> tag]

Image(id, page, rect) ==
    [id |-> id, kind |-> "image", page |-> page, rect |-> rect, tag |-> ""]

Arrow(id, page, start, end, width) ==
    [id |-> id, kind |-> "arrow", page |-> page, start |-> start, end |-> end,
     width |-> width, tag |-> ""]

Ink(id, page, points, width) ==
    [id |-> id, kind |-> "ink", page |-> page, points |-> points,
     width |-> width, tag |-> ""]

\* ------------------------------------------------------ score aggregation
\* variant: the points of a pastille are looked up in the scheme each time
\* the total is computed, instead of being read from the annotation
DocAccum_LivePoints(as) ==
    LET F[i \in 0..Len(as)] ==
            IF i = 0 THEN [sum_by_ex |-> EmptyDict, manual_by_ex |-> EmptyDict]
            ELSE LET a == as[i]
                     acc == F[i - 1]
                 IN IF a.kind = "score_circle" /\ a.exercise_code # <<>>
                    THEN [acc EXCEPT !.sum_by_ex =
                            DictPut(@, ExKey(a.exercise_code),
                                    DictGet(@, ExKey(a.exercise_code), 0)
                                        + points_for(scheme, a.exercise_code, a.result))]
                    ELSE IF a.kind = "manual_score" /\ a.exercise_code # <<>>
                    THEN [acc EXCEPT !.manual_by_ex =
                            DictPut(@, ExKey(a.exercise_code), a.points)]
                    ELSE acc
    IN F[Len(as)]

\* _doc_attrib_total, first loop: sum_by_ex / manual_by_ex keyed by the
\* top-level segment of exercise_code; an empty code is skipped
DocAccum(as) ==
    LET F[i \in 0..Len(as)] ==
            IF i = 0 THEN [sum_by_ex |-> EmptyDict, manual_by_ex |-> EmptyDict]
            ELSE LET a == as[i]
                     acc == F[i - 1]
                 IN IF a.kind = "score_circle" /\ a.exercise_code # <<>>
                    THEN [acc EXCEPT !.sum_by_ex =
                            DictPut(@, ExKey(a.exercise_code),
                                    DictGet(@, ExKey(a.exercise_code), 0) + a.points)]
                    ELSE IF a.kind = "manual_score" /\ a.exercise_code # <<>>
                    THEN [acc EXCEPT !.manual_by_ex =
                            DictPut(@, ExKey(a.exercise_code), a.points)]
                    ELSE acc
    IN F[Len(as)]

\* variant: a manual value is added on top of the pastilles instead of
\* replacing them
DocAttribByEx_AddsManual(as) ==
    LET acc == DocAccum(as)
        all_ex == (DOMAIN acc.sum_by_ex) \cup (DOMAIN acc.manual_by_ex)
    IN [e \in all_ex |->
            DictGet(acc.manual_by_ex, e, 0) + DictGet(acc.sum_by_ex, e, 0)]

\* _doc_attrib_total, second loop: the term each exercise code adds to total
DocAttribByEx(as) ==
    LET acc == DocAccum(as)
        all_ex == (DOMAIN acc.sum_by_ex) \cup (DOMAIN acc.manual_by_ex)
    IN [e \in all_ex |->
            IF e \in DOMAIN acc.manual_by_ex
            THEN DictGet(acc.manual_by_ex, e, 0)
            ELSE DictGet(acc.sum_by_ex, e, 0)]

doc_attrib_total(as) ==
    LET by == DocAttribByEx(as) IN SumSet(DOMAIN by, by)

\* _build_final_note_text: attrib_by_ex starts at 0.0 for every scheme
\* exercise; the pastille loop uses attrib_by_ex.get(ex_code, 0.0) + pts, which
\* also creates keys for codes outside the scheme; the manual loop only
\* overrides keys already present
FinalNoteCircles(sch, as) ==
    LET mx == MaxByEx(sch)
        F[i \in 0..Len(as)] ==
            IF i = 0 THEN [k \in DOMAIN mx |-> 0]
            ELSE LET a == as[i] IN
                 IF a.kind = "score_circle" /\ a.exercise_code # <<>>
                 THEN DictPut(F[i - 1], ExKey(a.exercise_code),
                              DictGet(F[i - 1], ExKey(a.exercise_code), 0) + a.points)
                 ELSE F[i - 1]
    IN F[Len(as)]

FinalNoteAccum(sch, as) ==
    LET F[i \in 0..Len(as)] ==
            IF i = 0 THEN [attrib_by_ex |-> FinalNoteCircles(sch, as), manual_set |-> {}]
            ELSE LET a == as[i]
                     acc == F[i - 1]
                 IN IF /\ a.kind = "manual_score"
                       /\ a.exercise_code # <<>>
                       /\ ExKey(a.exercise_code) \in DOMAIN acc.attrib_by_ex
                    THEN [attrib_by_ex |-> DictPut(acc.attrib_by_ex,
                                                   ExKey(a.exercise_code), a.points),
                          manual_set |-> acc.manual_set \cup {ExKey(a.exercise_code)}]
                    ELSE acc
    IN F[Len(as)]

build_final_note(sch, as) ==
    LET acc == FinalNoteAccum(sch, as)
        mx == MaxByEx(sch)
    IN [attrib_by_ex |-> acc.attrib_by_ex,
        manual_set |-> acc.manual_set,
        max_by_ex |-> mx,
        max_total |-> SumSet(DOMAIN mx, mx),
        attrib_total |-> SumSet(DOMAIN acc.attrib_by_ex, acc.attrib_by_ex)]

\* _refresh_info_panel (a document is selected): the pastille loop is that of
\* _build_final_note_text; the manual loop overrides the exercises of the
\* scheme only (ex_code not in max_by_ex: continue)
refresh_info_panel(sch, as) ==
    LET mx == MaxByEx(sch)
        F[i \in 0..Len(as)] ==
            IF i = 0 THEN [attrib_by_ex |-> FinalNoteCircles(sch, as), manual_set |-> {}]
            ELSE LET a == as[i]
                     acc == F[i - 1]
                 IN IF /\ a.kind = "manual_score"
                       /\ a.exercise_code # <<>>
                       /\ ExKey(a.exercise_code) \in DOMAIN mx
                    THEN [attrib_by_ex |-> DictPut(acc.attrib_by_ex,
                                                   ExKey(a.exercise_code), a.points),
                          manual_set |-> acc.manual_set \cup {ExKey(a.exercise_code)}]
                    ELSE acc
        acc == F[Len(as)]
    IN [attrib_by_ex |-> acc.attrib_by_ex,
        manual_set |-> acc.manual_set,
        max_by_ex |-> mx,
        max_total |-> SumSet(DOMAIN mx, mx),
        attrib_total |-> SumSet(DOMAIN acc.attrib_by_ex, acc.attrib_by_ex)]

\* ------------------------------------------------------------- hit test
Abs(x) == IF x < 0 THEN -x ELSE x
Min2(a, b) == IF a <= b THEN a ELSE b
Max2(a, b) == IF a >= b THEN a ELSE b

\* a distance is carried as its square, the rational num / den (den > 0)
Rat(n, d) == [num |-> n, den |-> d]

\* a.num / a.den < b.num / b.den, by comparing integer parts and then the
\* reciprocals of the fractional parts
RECURSIVE RatLess(_, _)
RatLess(a, b) ==
    LET qa == a.num \div a.den
        qb == b.num \div b.den
        ra == a.num % a.den
        rb == b.num % b.den
    IN IF qa # qb THEN qa < qb
       ELSE IF rb = 0 THEN FALSE
       ELSE IF ra = 0 THEN TRUE
       ELSE RatLess(Rat(b.den, rb), Rat(a.den, ra))

\* Optional[float] of _hit_test_ann: hit = FALSE is None
NoHit == [hit |-> FALSE, d2 |-> Rat(0, 1)]
HitAt(d2) == [hit |-> TRUE, d2 |-> d2]

\* _dist_point_segment, squared
dist_point_segment(px, py, ax, ay, bx, by) ==
    LET vx == bx - ax
        vy == by - ay
        wx == px - ax
        wy == py - ay
        vv == vx * vx + vy * vy
        wv == wx * vx + wy * vy
    IN IF vv = 0 THEN Rat(wx * wx + wy * wy, 1)
       ELSE IF wv < 0 THEN Rat(wx * wx + wy * wy, 1)
       ELSE IF wv > vv THEN Rat((px - bx) * (px - bx) + (py - by) * (py - by), 1)
       ELSE Rat((wx * wx + wy * wy) * vv - wv * wv, vv)

\* d <= thr for d*d = d2
RatWithin(d2, thr) == d2.num <= thr * thr * d2.den

\* variant: the pointer is tested against the square around the circle
HitCircle_in_square(a, x, y, grow) ==
    LET d2 == Rat((x - a.x_pt) * (x - a.x_pt) + (y - a.y_pt) * (y - a.y_pt), 1)
    IN IF Abs(x - a.x_pt) <= a.radius + grow /\ Abs(y - a.y_pt) <= a.radius + grow
       THEN HitAt(d2) ELSE NoHit

HitCircle(a, x, y, grow) ==
    LET d2 == Rat((x - a.x_pt) * (x - a.x_pt) + (y - a.y_pt) * (y - a.y_pt), 1)
    IN IF RatWithin(d2, a.radius + grow) THEN HitAt(d2) ELSE NoHit

\* variant: inside the band of 8pt the distance to the edge is returned
HitRect_edge_distance(a, x, y) ==
    LET x0 == Min2(a.rect[1], a.rect[3])
        x1 == Max2(a.rect[1], a.rect[3])
        y0 == Min2(a.rect[2], a.rect[4])
        y1 == Max2(a.rect[2], a.rect[4])
        dx == IF x0 <= x /\ x <= x1 THEN 0 ELSE Min2(Abs(x - x0), Abs(x - x1))
        dy == IF y0 <= y /\ y <= y1 THEN 0 ELSE Min2(Abs(y - y0), Abs(y - y1))
        d2 == Rat(dx * dx + dy * dy, 1)
    IN IF RatWithin(d2, 48) THEN HitAt(d2) ELSE NoHit

HitRect(a, x, y) ==
    LET x0 == Min2(a.rect[1], a.rect[3])
        x1 == Max2(a.rect[1], a.rect[3])
        y0 == Min2(a.rect[2], a.rect[4])
        y1 == Max2(a.rect[2], a.rect[4])
        pad == 48
        dx == IF x0 <= x /\ x <= x1 THEN 0 ELSE Min2(Abs(x - x0), Abs(x - x1))
        dy == IF y0 <= y /\ y <= y1 THEN 0 ELSE Min2(Abs(y - y0), Abs(y - y1))
        d2 == Rat(dx * dx + dy * dy, 1)
    IN IF (x0 - pad) <= x /\ x <= (x1 + pad) /\ (y0 - pad) <= y /\ y <= (y1 + pad)
       THEN HitAt(Rat(0, 1))
       ELSE IF RatWithin(d2, pad) THEN HitAt(d2) ELSE NoHit

\* thr = 10.0 + w * 1.5 pt
SegThr(w) == 60 + 9 * w

HitArrow(a, x, y) ==
    LET d2 == dist_point_segment(x, y, a.start[1], a.start[2], a.end[1], a.end[2])
    IN IF RatWithin(d2, SegThr(a.width)) THEN HitAt(d2) ELSE NoHit

HitInk(a, x, y) ==
    LET pts == a.points
        F[i \in 1..Len(pts)] ==
            IF i = 1 THEN NoHit
            ELSE LET d2 == dist_point_segment(x, y, pts[i - 1][1], pts[i - 1][2],
                                              pts[i][1], pts[i][2])
                 IN IF ~F[i - 1].hit \/ RatLess(d2, F[i - 1].d2)
                    THEN HitAt(d2) ELSE F[i - 1]
        best == F[Len(pts)]
    IN IF Len(pts) < 2 THEN NoHit
       ELSE IF RatWithin(best.d2, SegThr(a.width)) THEN best ELSE NoHit

hit_test_ann(a, page, x, y) ==
    IF a.page # page THEN NoHit
    ELSE IF a.kind \in CircleKinds THEN HitCircle(a, x, y, 60)
    ELSE IF a.kind \in {"textbox", "image"} THEN HitRect(a, x, y)
    ELSE IF a.kind = "arrow" THEN HitArrow(a, x, y)
    ELSE IF a.kind = "ink" THEN HitInk(a, x, y)
    ELSE NoHit

\* variant: an annotation at the same distance as the best one replaces it
find_nearest_last_wins(as, page, x, y) ==
    LET F[i \in 0..Len(as)] ==
            IF i = 0 THEN [idx |-> 0, d2 |-> Rat(0, 1)]
            ELSE LET h == hit_test_ann(as[i], page, x, y)
                 IN IF h.hit /\ (F[i - 1].idx = 0 \/ ~RatLess(F[i - 1].d2, h.d2))
                    THEN [idx |-> i, d2 |-> h.d2]
                    ELSE F[i - 1]
    IN F[Len(as)].idx

\* _find_nearest_annotation: index of the first annotation at the smallest
\* distance among those hit, 0 when none is hit
find_nearest_annotation(as, page, x, y) ==
    LET F[i \in 0..Len(as)] ==
            IF i = 0 THEN [idx |-> 0, d2 |-> Rat(0, 1)]
            ELSE LET h == hit_test_ann(as[i], page, x, y)
                 IN IF h.hit /\ (F[i - 1].idx = 0 \/ RatLess(h.d2, F[i - 1].d2))
                    THEN [idx |-> i, d2 |-> h.d2]
                    ELSE F[i - 1]
    IN F[Len(as)].idx

\* _find_nearest_marker: nearest score_circle of the page, if within 14pt
find_nearest_marker(as, page, x, y) ==
    LET D2(a) == (a.x_pt - x) * (a.x_pt - x) + (a.y_pt - y) * (a.y_pt - y)
        F[i \in 0..Len(as)] ==
            IF i = 0 THEN 0
            ELSE IF /\ as[i].kind = "score_circle"
                    /\ as[i].page = page
                    /\ (F[i - 1] = 0 \/ D2(as[i]) < D2(as[F[i - 1]]))
                 THEN i ELSE F[i - 1]
        best == F[Len(as)]
    IN IF best # 0 /\ D2(as[best]) <= 84 * 84 THEN best ELSE 0

\* ======================================================================
\* The annotation window: tools, selection, gestures, regeneration
\* ======================================================================
Tools == {"none", "ink", "textbox", "arrow", "image", "manual_score"}
DrawTools == {"ink", "arrow", "textbox", "image"}

\* state of the fields set by __init__ / _reset_draw_state
DrawIdle ==
    /\ draw_kind = "None"
    /\ draw_page = -1
    /\ draw_points = <<>>
    /\ draw_start = <<>>
    /\ draw_end = <<>>
    /\ move_active = FALSE
    /\ move_ann_id = 0
    /\ move_anchor = <<>>
    /\ move_snapshot = <<>>
    /\ move_has_moved = FALSE

NoRender == [anns |-> <<>>, mouse_down |-> FALSE, draw_kind |-> "None", failed |-> FALSE]
\* a generated PDF is named by the list it was generated from: <<list>>, and
\* <<>> stands for no file (corrected) or the "margin" PDF (shown)
NoArtifact == [corrected |-> <<>>, variant |-> "margin", shown |-> <<>>]
NoBurst == [open |-> FALSE, renders |-> 0]

\* AppWindow.__init__ for the fields that do not depend on the project
UiInit ==
    /\ ann_tool_var = "none"
    /\ sel_mode_var = FALSE
    /\ selected_ann_ids = {}
    /\ DrawIdle
    /\ pdf_mouse_down = FALSE
    /\ drag_active = FALSE
    /\ drag_target_idx = 0
    /\ regen_after_id = FALSE
    /\ render = NoRender
    /\ artifact = NoArtifact
    /\ renderer_fails = FALSE
    /\ burst = NoBurst
    /\ overlay = <<>>
    /\ button_held = FALSE
    /\ ptr = <<>>
    /\ clicks = 0

\* _reset_draw_state
\* variant: the fields of the move gesture survive the reset
reset_draw_state_keeps_move ==
    /\ draw_kind' = "None"
    /\ draw_page' = -1
    /\ draw_points' = <<>>
    /\ draw_start' = <<>>
    /\ draw_end' = <<>>
    /\ UNCHANGED moveVars

reset_draw_state ==
    /\ draw_kind' = "None"
    /\ draw_page' = -1
    /\ draw_points' = <<>>
    /\ draw_start' = <<>>
    /\ draw_end' = <<>>
    /\ move_active' = FALSE
    /\ move_ann_id' = 0
    /\ move_anchor' = <<>>
    /\ move_snapshot' = <<>>
    /\ move_has_moved' = FALSE

\* variant: the trace of ann_tool_var leaves sel_mode_var alone
tool_changed_keeps_selection(st) == st

\* ---- tool / selection variables and their write traces
\* st = [tool, sel, guard]: ann_tool_var, sel_mode_var, _sync_tool_sel_guard
RECURSIVE on_annot_tool_changed(_), on_sel_mode_changed(_)

\* tk variable .set(): stores the value, then runs the write trace
set_sel_mode_var(st, v) == on_sel_mode_changed([st EXCEPT !.sel = v])
set_ann_tool_var(st, v) == on_annot_tool_changed([st EXCEPT !.tool = v])

on_annot_tool_changed(st) ==
    IF st.guard THEN st
    ELSE LET s1 == [st EXCEPT !.guard = TRUE]
             s2 == IF s1.tool # "none" /\ s1.sel THEN set_sel_mode_var(s1, FALSE) ELSE s1
         IN [s2 EXCEPT !.guard = FALSE]

on_sel_mode_changed(st) ==
    IF st.guard THEN st
    ELSE LET s1 == [st EXCEPT !.guard = TRUE]
             s2 == IF s1.sel /\ s1.tool # "none" THEN set_ann_tool_var(s1, "none") ELSE s1
         IN [s2 EXCEPT !.guard = FALSE]

ModeState == [tool |-> ann_tool_var, sel |-> sel_mode_var, guard |-> FALSE]

\* ---- regeneration
\* variant: the new file is swapped in although apply_annotations raised
swap_even_on_failure(list) ==
    [corrected |-> <<list>>, variant |-> "corrected", shown |-> <<list>>]

\* c_regenerate from the call of apply_annotations on: when it raises, a
\* message box and nothing else; otherwise the new file becomes the
\* "corrected" variant, the current variant, and (after_idle) the PDF shown
swap_corrected(list) ==
    IF renderer_fails THEN artifact
    ELSE [corrected |-> <<list>>, variant |-> "corrected", shown |-> <<list>>]

\* c_regenerate, called with the document open: apply_annotations gets the
\* live list; the project is saved again.  md / dk are _pdf_mouse_down and
\* _draw_kind at the time of the call.
c_regenerate(list, md, dk) ==
    /\ render' = [anns |-> list, mouse_down |-> md, draw_kind |-> dk,
                  failed |-> renderer_fails]
    /\ artifact' = swap_corrected(list)
    /\ saved' = list
    /\ burst' = IF burst.open THEN [burst EXCEPT !.renders = Min2(@ + 1, 2)] ELSE burst
    /\ UNCHANGED regen_after_id

\* _schedule_regenerate: cancels the pending callback, starts a new one
\* (nothing is started without a document)
schedule_regenerate ==
    /\ regen_after_id' = doc_open
    /\ burst' = IF ~doc_open THEN NoBurst
                ELSE IF burst.open THEN burst ELSE [open |-> TRUE, renders |-> 0]
    /\ UNCHANGED <<render, artifact>>

\* the callback _run of _schedule_regenerate
TimerFire ==
    /\ regen_after_id
    /\ IF pdf_mouse_down \/ draw_kind # "None"
       THEN /\ regen_after_id' = doc_open
            /\ burst' = IF doc_open THEN burst ELSE NoBurst
            /\ UNCHANGED <<render, saved, artifact>>
       ELSE /\ regen_after_id' = FALSE
            /\ IF doc_open
               THEN /\ render' = [anns |-> anns, mouse_down |-> pdf_mouse_down,
                                  draw_kind |-> draw_kind, failed |-> renderer_fails]
                    /\ artifact' = swap_corrected(anns)
                    /\ saved' = IF renderer_fails THEN saved ELSE anns
                    /\ burst' = [open |-> FALSE, renders |-> Min2(burst.renders + 1, 2)]
               ELSE /\ burst' = NoBurst
                    /\ UNCHANGED <<render, saved, artifact>>
    /\ UNCHANGED <<scoreVars, cfgVars, modeVars, selected_ann_ids, drawVars, moveVars,
                   pdf_mouse_down, corrVars, overlay, next_id, button_held, ptr, clicks>>

\* ---- toolbar
\* _on_tool_combo: the combobox writes ann_tool_var
OnToolCombo(v) ==
    /\ ~button_held
    /\ LET st == set_ann_tool_var(ModeState, v)
       IN /\ ann_tool_var' = st.tool
          /\ sel_mode_var' = st.sel
    /\ UNCHANGED <<scoreVars, cfgVars, selected_ann_ids, drawVars, moveVars, pdf_mouse_down,
                   corrVars, regenVars, saved, overlay, next_id, button_held, ptr, clicks>>

\* the check button writes sel_mode_var, then runs its command _on_sel_toggle
OnSelToggle ==
    /\ ~button_held
    /\ LET st == set_sel_mode_var(ModeState, ~sel_mode_var)
       IN /\ ann_tool_var' = st.tool
          /\ sel_mode_var' = st.sel
          /\ IF ~st.sel
             THEN reset_draw_state /\ selected_ann_ids' = {}
             ELSE UNCHANGED <<drawVars, moveVars, selected_ann_ids>>
    /\ UNCHANGED <<scoreVars, cfgVars, pdf_mouse_down, corrVars, regenVars, saved,
                   overlay, next_id, button_held, ptr, clicks>>

\* ---- pointer-down on the page
\* _corr_margin_x_pt for corr_margin_cm = 1.27: (1.27 / 2.54) * 72 = 36pt
MarginX == 216

\* the first segment of a stored code, '' for an empty one
TopOf(code) == IF code = <<>> THEN <<>> ELSE ExKey(code)

\* variant: the new manual_score is appended and the one the exercise
\* already has stays in the list
add_manual_score_keeps_old(as, id, page, x, y, ex_code, pts) ==
    Append(as, ManualScore(id, page, IF c_align_margin_var THEN MarginX ELSE x, y,
                           ex_code, pts))

\* _add_manual_score_at, "Ajout / remplacement": the manual_score of ex_code is
\* dropped, then the new one is appended
add_manual_score(as, id, page, x, y, ex_code, pts) ==
    Append(SelectIdx(as, {i \in DOMAIN as : ~(as[i].kind = "manual_score"
                                       /\ TopOf(as[i].exercise_code) = ex_code)}),
           ManualScore(id, page, IF c_align_margin_var THEN MarginX ELSE x, y, ex_code, pts))

\* a handler that showed a modal window: the button-up may have gone to that
\* window (the page never sees it) or still be to come
AfterModal(page, x, y) ==
    /\ button_held' \in BOOLEAN
    /\ ptr' = IF button_held' THEN <<page, x, y>> ELSE <<>>

Held(page, x, y) ==
    /\ button_held' = TRUE
    /\ ptr' = <<page, x, y>>

\* _require_doc fails (message box) in the tool, selection or pastille branch
ClickNoDoc(page, x, y) ==
    /\ ~doc_open
    /\ IF ann_tool_var # "none" \/ sel_mode_var \/ subtab = "Correction V0"
       THEN AfterModal(page, x, y)
       ELSE Held(page, x, y)
    /\ UNCHANGED <<scoreVars, modeVars, selected_ann_ids, drawVars, moveVars, corrVars,
                   regenVars, saved, next_id>>

\* tool manual_score: _add_manual_score_at runs its dialog inside the handler;
\* dlg is what the dialog returns: <<>> (cancelled, or points not a number) or
\* <<ex_code, pts>>
ClickManualScore(page, x, y, dlg) ==
    /\ doc_open
    /\ ann_tool_var = "manual_score"
    /\ selected_ann_ids' = {}
    /\ IF scheme = <<>> \/ dlg = <<>>
       THEN UNCHANGED <<anns, saved, next_id, regenVars>>
       ELSE /\ dlg[1] \in {scheme[i].code : i \in DOMAIN scheme}
            /\ next_id <= MaxIds
            /\ anns' = add_manual_score(anns, next_id, page, x, y, dlg[1], dlg[2])
            /\ next_id' = next_id + 1
            /\ saved' = anns'
            /\ schedule_regenerate
    /\ reset_draw_state
    /\ AfterModal(page, x, y)
    /\ UNCHANGED <<scheme, out, modeVars, corrVars>>

\* tools ink / arrow / textbox / image: the gesture starts
\* variant: the gesture starts without its down-point
ClickDraw_unseeded(page, x, y) ==
    /\ doc_open
    /\ ann_tool_var \in DrawTools
    /\ selected_ann_ids' = {}
    /\ draw_kind' = ann_tool_var
    /\ draw_page' = page
    /\ draw_points' = <<>>
    /\ draw_start' = <<>>
    /\ draw_end' = <<>>
    /\ Held(page, x, y)
    /\ UNCHANGED <<scoreVars, modeVars, moveVars, corrVars, regenVars, saved, next_id>>

ClickDraw(page, x, y) ==
    /\ doc_open
    /\ ann_tool_var \in DrawTools
    /\ selected_ann_ids' = {}
    /\ draw_kind' = ann_tool_var
    /\ draw_page' = page
    /\ IF ann_tool_var = "ink"
       THEN draw_points' = <<<<x, y>>>> /\ UNCHANGED <<draw_start, draw_end>>
       ELSE draw_start' = <<x, y>> /\ draw_end' = <<x, y>> /\ UNCHANGED draw_points
    /\ Held(page, x, y)
    /\ UNCHANGED <<scoreVars, modeVars, moveVars, corrVars, regenVars, saved, next_id>>

\* selection mode, an annotation is hit: select it and arm the move
ClickSelectHit(page, x, y) ==
    /\ doc_open
    /\ ann_tool_var = "none" /\ sel_mode_var
    /\ LET idx == find_nearest_annotation(anns, page, x, y)
       IN /\ idx # 0
          /\ selected_ann_ids' = {anns[idx].id}
          /\ draw_kind' = "move"
          /\ draw_page' = page
          /\ move_active' = TRUE
          /\ move_ann_id' = anns[idx].id
          /\ move_anchor' = <<x, y>>
          /\ move_snapshot' = <<anns[idx]>>
          /\ move_has_moved' = FALSE
    /\ Held(page, x, y)
    /\ UNCHANGED <<scoreVars, modeVars, draw_points, draw_start, draw_end, corrVars,
                   regenVars, saved, next_id>>

\* no tool, and selection mode off or nothing hit (the selection is then
\* emptied): nothing more outside "Correction V0"
ClickPlain(page, x, y) ==
    /\ doc_open
    /\ ann_tool_var = "none"
    /\ sel_mode_var => find_nearest_annotation(anns, page, x, y) = 0
    /\ subtab # "Correction V0"
    /\ selected_ann_ids' = IF sel_mode_var THEN {} ELSE selected_ann_ids
    /\ Held(page, x, y)
    /\ UNCHANGED <<scoreVars, modeVars, drawVars, moveVars, corrVars, regenVars, saved,
                   next_id>>

\* _on_pdf_click_for_correction, "Mode deplacer une pastille"
ClickCorrectionMove(page, x, y) ==
    /\ doc_open
    /\ ann_tool_var = "none"
    /\ sel_mode_var => find_nearest_annotation(anns, page, x, y) = 0
    /\ subtab = "Correction V0"
    /\ c_move_var
    /\ selected_ann_ids' = IF sel_mode_var THEN {} ELSE selected_ann_ids
    /\ LET idx == find_nearest_marker(anns, page, x, y)
       IN /\ drag_active' = (idx # 0)
          /\ drag_target_idx' = idx
    /\ Held(page, x, y)
    /\ UNCHANGED <<scoreVars, modeVars, drawVars, moveVars, regenVars, saved, next_id>>

\* _on_pdf_click_for_correction, "Ajout normal": leaf is the item chosen in the
\* list (<<>>: none, a message box), result the radio button
ClickCorrectionAdd(page, x, y, leaf, result) ==
    /\ doc_open
    /\ ann_tool_var = "none"
    /\ sel_mode_var => find_nearest_annotation(anns, page, x, y) = 0
    /\ subtab = "Correction V0"
    /\ ~c_move_var
    /\ selected_ann_ids' = IF sel_mode_var THEN {} ELSE selected_ann_ids
    /\ IF leaf = <<>>
       THEN /\ AfterModal(page, x, y)
            /\ UNCHANGED <<anns, saved, next_id, regenVars>>
       ELSE /\ next_id <= MaxIds
            /\ anns' = Append(anns,
                    ScoreCircle(next_id, page, IF c_align_margin_var THEN MarginX ELSE x, y,
                                leaf, result, points_for(scheme, leaf, result)))
            /\ next_id' = next_id + 1
            /\ c_regenerate(anns', TRUE, draw_kind)
            /\ IF renderer_fails THEN AfterModal(page, x, y) ELSE Held(page, x, y)
    /\ UNCHANGED <<scheme, out, modeVars, drawVars, moveVars, corrVars>>

\* _on_pdf_click
PdfClick(page, x, y, dlg, leaf, result) ==
    /\ ~button_held
    /\ clicks < MaxClicks
    /\ clicks' = clicks + 1
    /\ pdf_mouse_down' = TRUE
    /\ UNCHANGED <<cfgVars, overlay>>
    /\ \/ ClickNoDoc(page, x, y)
       \/ ClickManualScore(page, x, y, dlg)
       \/ ClickDraw(page, x, y)
       \/ ClickSelectHit(page, x, y)
       \/ ClickPlain(page, x, y)
       \/ ClickCorrectionMove(page, x, y)
       \/ ClickCorrectionAdd(page, x, y, leaf, result)

\* ---- pointer-move with the button down
\* first position of the annotation with that id, 0 when there is none
IndexOfId(as, id) ==
    IF \E i \in DOMAIN as : as[i].id = id
    THEN CHOOSE i \in DOMAIN as : as[i].id = id /\ \A j \in 1..(i - 1) : as[j].id # id
    ELSE 0

\* abs(d) > 0.2 (pt)
OverEps(d) == 5 * Abs(d) > 6

AlignLock == subtab = "Correction V0" /\ c_align_margin_var

\* variant: the delta is added to the live geometry instead of the snapshot
moved_incrementally(target, orig, dx, dy) ==
    IF orig.kind \in CircleKinds
    THEN [target EXCEPT !.x_pt = IF AlignLock THEN MarginX ELSE target.x_pt + dx,
                        !.y_pt = target.y_pt + dy]
    ELSE IF orig.kind \in {"textbox", "image"}
    THEN [target EXCEPT !.rect = <<target.rect[1] + dx, target.rect[2] + dy,
                                   target.rect[3] + dx, target.rect[4] + dy>>]
    ELSE IF orig.kind = "arrow"
    THEN [target EXCEPT !.start = <<target.start[1] + dx, target.start[2] + dy>>,
                        !.end = <<target.end[1] + dx, target.end[2] + dy>>]
    ELSE IF orig.kind = "ink"
    THEN [target EXCEPT !.points =
            [i \in DOMAIN target.points |-> <<target.points[i][1] + dx, target.points[i][2] + dy>>]]
    ELSE target

\* variant: the drag also marks the annotation it moves
moved_geometry_tagged(target, orig, dx, dy) ==
    [moved_incrementally(target, orig, dx, dy) EXCEPT !.tag = "moved"]

\* _on_pdf_drag, move branch: the geometry written into the live annotation,
\* computed from the snapshot orig and the delta to the anchor
\* variant: the x of a circle follows the pointer whatever the option
moved_geometry_free_x(target, orig, dx, dy) ==
    IF orig.kind \in CircleKinds
    THEN [target EXCEPT !.x_pt = orig.x_pt + dx, !.y_pt = orig.y_pt + dy]
    ELSE moved_incrementally(orig, orig, dx, dy)

moved_geometry(target, orig, dx, dy) ==
    IF orig.kind \in CircleKinds
    THEN [target EXCEPT !.x_pt = IF AlignLock THEN MarginX ELSE orig.x_pt + dx,
                        !.y_pt = orig.y_pt + dy]
    ELSE IF orig.kind \in {"textbox", "image"}
    THEN [target EXCEPT !.rect = <<orig.rect[1] + dx, orig.rect[2] + dy,
                                   orig.rect[3] + dx, orig.rect[4] + dy>>]
    ELSE IF orig.kind = "arrow"
    THEN [target EXCEPT !.start = <<orig.start[1] + dx, orig.start[2] + dy>>,
                        !.end = <<orig.end[1] + dx, orig.end[2] + dy>>]
    ELSE IF orig.kind = "ink" /\ orig.points # <<>>
    THEN [target EXCEPT !.points =
            [i \in DOMAIN orig.points |-> <<orig.points[i][1] + dx, orig.points[i][2] + dy>>]]
    ELSE target

DragMove(page, x, y) ==
    /\ draw_kind = "move"
    /\ IF page # draw_page \/ ~(move_active /\ move_ann_id # 0 /\ move_anchor # <<>>
                                 /\ move_snapshot # <<>>)
       THEN UNCHANGED <<anns, move_has_moved>>
       ELSE LET dx == x - move_anchor[1]
                dy == y - move_anchor[2]
                t == IndexOfId(anns, move_ann_id)
            IN /\ move_has_moved' = (move_has_moved \/ OverEps(dx) \/ OverEps(dy))
               /\ anns' = IF t = 0 THEN anns
                          ELSE [anns EXCEPT ![t] = moved_geometry(@, move_snapshot[1], dx, dy)]
    /\ UNCHANGED <<draw_kind, draw_page, draw_points, draw_start, draw_end,
                   move_active, move_ann_id, move_anchor, move_snapshot>>

\* variant: every pointer-move to another point is recorded
InkStep_any_move(dx, dy) == dx # 0 \/ dy # 0

\* math.hypot(dx, dy) >= 1.2 (pt)
InkStep(dx, dy) == 25 * (dx * dx + dy * dy) >= 1296

\* variant: the page of the pointer-move is not compared with the page of
\* the gesture
DragDraw_any_page(page, x, y) ==
    /\ draw_kind \in DrawTools
    /\ IF draw_kind = "ink"
       THEN /\ UNCHANGED draw_end
            /\ draw_points' = IF Len(draw_points) < MaxInkPts
                              THEN Append(draw_points, <<x, y>>) ELSE draw_points
       ELSE draw_end' = <<x, y>> /\ UNCHANGED draw_points
    /\ UNCHANGED <<anns, draw_kind, draw_page, draw_start, moveVars>>

DragDraw(page, x, y) ==
    /\ draw_kind \in DrawTools
    /\ IF page # draw_page
       THEN UNCHANGED <<draw_points, draw_end>>
       ELSE IF draw_kind = "ink"
       THEN /\ UNCHANGED draw_end
            /\ IF draw_points = <<>>
               THEN draw_points' = <<<<x, y>>>>
               ELSE LET last == draw_points[Len(draw_points)]
                    IN IF InkStep(x - last[1], y - last[2])
                       THEN /\ Len(draw_points) < MaxInkPts
                            /\ draw_points' = Append(draw_points, <<x, y>>)
                       ELSE UNCHANGED draw_points
       ELSE draw_end' = <<x, y>> /\ UNCHANGED draw_points
    /\ UNCHANGED <<anns, draw_kind, draw_page, draw_start, moveVars>>

\* _on_pdf_drag_for_correction (no gesture of the toolbar is active)
DragCorrection(page, x, y) ==
    /\ draw_kind \notin DrawTools \cup {"move"}
    /\ IF /\ subtab = "Correction V0" /\ c_move_var
          /\ drag_active /\ drag_target_idx # 0
          /\ doc_open
          /\ drag_target_idx <= Len(anns)
          /\ anns[drag_target_idx].kind = "score_circle"
          /\ anns[drag_target_idx].page = page
       THEN anns' = [anns EXCEPT ![drag_target_idx] =
                        [@ EXCEPT !.x_pt = IF c_align_margin_var THEN MarginX ELSE x,
                                  !.y_pt = y]]
       ELSE UNCHANGED anns
    /\ UNCHANGED <<drawVars, moveVars>>

\* _on_pdf_drag
PdfDrag(page, x, y) ==
    /\ button_held
    /\ ptr' = <<page, x, y>>
    /\ \/ DragMove(page, x, y)
       \/ DragDraw(page, x, y)
       \/ DragCorrection(page, x, y)
    /\ UNCHANGED <<scheme, out, cfgVars, modeVars, selected_ann_ids, pdf_mouse_down,
                   corrVars, regenVars, saved, overlay, next_id, button_held, clicks>>

\* ---- pointer-up
\* ann_width_var (default)
AnnWidth == 3

\* image_tool.build_annotation for a square picture, width_cm = 2.54 (72pt),
\* keep_ratio on: a click-sized drag gives the default box centred on the
\* point of the release, otherwise the drawn box, normalised
build_image_rect(s, e, click) ==
    IF Abs(e[1] - s[1]) < 36 \/ Abs(e[2] - s[2]) < 36
    THEN <<click[1] - 216, click[2] - 216, click[1] + 216, click[2] + 216>>
    ELSE <<Min2(s[1], e[1]), Min2(s[2], e[2]), Max2(s[1], e[1]), Max2(s[2], e[2])>>

\* text box: padding * 2 + n_lines * max(10, fontsize * 1.25) + 2 for
\* text_size_var = 14, i.e. 10pt + 17.5pt per line
min_h_for_text(n_lines) == 60 + 105 * n_lines

\* variant: a click gives the default box of 260 x 44pt whatever the text
textbox_rect_fixed_height(s, e, n_lines) ==
    IF Abs(e[1] - s[1]) < 36 \/ Abs(e[2] - s[2]) < 36
    THEN <<s[1], s[2], s[1] + 1560, s[2] + 264>>
    ELSE IF Abs(e[2] - s[2]) < min_h_for_text(n_lines)
    THEN <<s[1], s[2], e[1], s[2] + min_h_for_text(n_lines)>>
    ELSE <<s[1], s[2], e[1], e[2]>>

textbox_rect(s, e, n_lines) ==
    IF Abs(e[1] - s[1]) < 36 \/ Abs(e[2] - s[2]) < 36
    THEN <<s[1], s[2], s[1] + 1560, s[2] + Max2(264, min_h_for_text(n_lines))>>
    ELSE IF Abs(e[2] - s[2]) < min_h_for_text(n_lines)
    THEN <<s[1], s[2], e[1], s[2] + min_h_for_text(n_lines)>>
    ELSE <<s[1], s[2], e[1], e[2]>>

\* end of a move: with movement recorded, snap / save / schedule
ReleaseMove ==
    /\ draw_kind = "move"
    /\ IF move_has_moved /\ doc_open
       THEN /\ anns' =
                IF AlignLock /\ \E i \in DOMAIN anns :
                        anns[i].id = move_ann_id /\ anns[i].kind = "score_circle"
                THEN LET t == CHOOSE i \in DOMAIN anns :
                                /\ anns[i].id = move_ann_id /\ anns[i].kind = "score_circle"
                                /\ \A j \in 1..(i - 1) :
                                     ~(anns[j].id = move_ann_id /\ anns[j].kind = "score_circle")
                     IN [anns EXCEPT ![t] = [@ EXCEPT !.x_pt = MarginX]]
                ELSE anns
            /\ saved' = anns'
            /\ schedule_regenerate
       ELSE UNCHANGED <<anns, saved, regenVars>>
    /\ reset_draw_state
    /\ UNCHANGED <<next_id, corrVars>>

\* end of a drawing gesture: nlines is the text to insert (0: none given),
\* img whether a picture of the library is selected
ReleaseDraw(x, y, nlines, img) ==
    /\ draw_kind \in DrawTools
    /\ LET e == IF draw_end # <<>> THEN draw_end ELSE <<x, y>>
           new ==
             IF ~doc_open \/ draw_page = -1 THEN <<>>
             ELSE IF draw_kind = "ink"
             THEN IF Len(draw_points) >= 2
                  THEN <<Ink(next_id, draw_page, draw_points, AnnWidth)>> ELSE <<>>
             ELSE IF draw_start = <<>> THEN <<>>
             ELSE IF draw_kind = "arrow"
             THEN <<Arrow(next_id, draw_page, draw_start, e, AnnWidth)>>
             ELSE IF draw_kind = "image"
             THEN IF img THEN <<Image(next_id, draw_page, build_image_rect(draw_start, e, <<x, y>>))>>
                  ELSE <<>>
             ELSE IF nlines > 0
                  THEN <<TextBox(next_id, draw_page, textbox_rect(draw_start, e, nlines),
                                 nlines, <<>>, "")>>
                  ELSE <<>>
       IN IF new = <<>>
          THEN UNCHANGED <<anns, saved, next_id, regenVars>>
          ELSE /\ next_id <= MaxIds
               /\ anns' = Append(anns, new[1])
               /\ next_id' = next_id + 1
               /\ saved' = anns'
               /\ schedule_regenerate
    /\ reset_draw_state
    /\ UNCHANGED corrVars

\* _on_pdf_release_for_correction (no gesture of the toolbar is active)
ReleaseCorrection(page, x, y) ==
    /\ draw_kind \notin DrawTools \cup {"move"}
    /\ IF /\ subtab = "Correction V0" /\ c_move_var
          /\ drag_active /\ drag_target_idx # 0
          /\ doc_open
       THEN /\ anns' =
                IF drag_target_idx <= Len(anns) /\ anns[drag_target_idx].kind = "score_circle"
                THEN [anns EXCEPT ![drag_target_idx] =
                        [@ EXCEPT !.page = page,
                                  !.x_pt = IF c_align_margin_var THEN MarginX ELSE x,
                                  !.y_pt = y]]
                ELSE anns
            /\ c_regenerate(anns', FALSE, draw_kind)
            /\ drag_active' = FALSE
            /\ drag_target_idx' = 0
       ELSE UNCHANGED <<anns, saved, regenVars, corrVars>>
    /\ UNCHANGED <<drawVars, moveVars, next_id>>

\* _on_pdf_release
PdfRelease(page, x, y, nlines, img) ==
    /\ button_held
    /\ button_held' = FALSE
    /\ ptr' = <<>>
    /\ pdf_mouse_down' = FALSE
    /\ \/ ReleaseMove
       \/ ReleaseDraw(x, y, nlines, img)
       \/ ReleaseCorrection(page, x, y)
    /\ UNCHANGED <<scheme, out, cfgVars, modeVars, selected_ann_ids, overlay, clicks>>

\* ---- buttons and lists (the mouse is not held on the page)
IdleFrame == UNCHANGED <<cfgVars, modeVars, drawVars, moveVars, pdf_mouse_down, corrVars,
                         button_held, ptr, clicks, scheme, out>>

\* ann_delete_selected ("Supprimer selection")
AnnDeleteSelected ==
    /\ ~button_held /\ doc_open
    /\ selected_ann_ids # {}
    /\ anns' = SelectIdx(anns, {i \in DOMAIN anns : anns[i].id \notin selected_ann_ids})
    /\ selected_ann_ids' = {}
    /\ c_regenerate(anns', pdf_mouse_down, draw_kind)
    /\ IdleFrame
    /\ UNCHANGED <<overlay, next_id>>

\* ann_clear_selection ("Deselectionner")
AnnClearSelection ==
    /\ ~button_held
    /\ selected_ann_ids # {}
    /\ selected_ann_ids' = {}
    /\ IdleFrame
    /\ UNCHANGED <<anns, regenVars, saved, overlay, next_id>>

\* c_delete_last
CDeleteLast ==
    /\ ~button_held /\ doc_open
    /\ anns # <<>>
    /\ anns' = SubSeq(anns, 1, Len(anns) - 1)
    /\ c_regenerate(anns', pdf_mouse_down, draw_kind)
    /\ IdleFrame
    /\ UNCHANGED <<selected_ann_ids, overlay, next_id>>

\* c_delete_selected: i is the annotation the selected row of the marks list
\* maps to
CDeleteSelected(i) ==
    /\ ~button_held /\ doc_open
    /\ i \in DOMAIN anns
    /\ anns[i].kind \in CircleKinds
    /\ anns' = SelectIdx(anns, DOMAIN anns \ {i})
    /\ c_regenerate(anns', pdf_mouse_down, draw_kind)
    /\ IdleFrame
    /\ UNCHANGED <<selected_ann_ids, overlay, next_id>>

\* _edit_manual_score_at_index, after the dialog returned <<ex_code, pts>>:
\* the marker is rewritten in place, other manual_score of ex_code are dropped
edit_manual_score(as, idx, ex_code, pts) ==
    LET cur == [as[idx] EXCEPT !.exercise_code = ex_code, !.points = pts,
                               !.tag = "manual_score"]
        upd == [as EXCEPT ![idx] = cur]
    IN SelectIdx(upd, {i \in DOMAIN upd : i = idx \/ ~(upd[i].kind = "manual_score"
                                              /\ TopOf(upd[i].exercise_code) = ex_code)})

\* double click on a manual_score row of the marks list
EditManualScore(idx, dlg) ==
    /\ ~button_held /\ doc_open
    /\ idx \in DOMAIN anns
    /\ anns[idx].kind = "manual_score"
    /\ scheme # <<>>
    /\ dlg # <<>>
    /\ dlg[1] \in {scheme[i].code : i \in DOMAIN scheme}
    /\ anns' = edit_manual_score(anns, idx, dlg[1], dlg[2])
    /\ saved' = anns'
    /\ schedule_regenerate
    /\ IdleFrame
    /\ UNCHANGED <<selected_ann_ids, overlay, next_id>>

\* _save_overlay_from_current_doc: the overlay file gets the whole list
SaveOverlay ==
    /\ ~button_held /\ doc_open
    /\ overlay' = anns
    /\ IdleFrame
    /\ UNCHANGED <<anns, selected_ann_ids, regenVars, saved, next_id>>

\* _apply_selected_overlay_to_current_doc: deep copies with new ids are appended
ApplyOverlay ==
    /\ ~button_held /\ doc_open
    /\ overlay # <<>>
    /\ next_id + Len(overlay) - 1 <= MaxIds
    /\ anns' = anns \o [i \in DOMAIN overlay |-> [overlay[i] EXCEPT !.id = next_id + i - 1]]
    /\ next_id' = next_id + Len(overlay)
    /\ c_regenerate(anns', pdf_mouse_down, draw_kind)
    /\ IdleFrame
    /\ UNCHANGED <<selected_ann_ids, overlay>>

\* variant: the invisible marker of an earlier note is kept
remove_final_note_box_only(as) ==
    SelectIdx(as, {i \in DOMAIN as : ~(as[i].kind = "textbox" /\ as[i].tag = "final_note")})

\* _remove_final_note_annotations
remove_final_note_annotations(as) ==
    SelectIdx(as, {i \in DOMAIN as : ~(as[i].kind = "textbox"
                               /\ as[i].tag \in {"final_note", "final_note_marker"})})

\* height of the recap box, "overlay_topleft" placement: max(170pt, 13 * lines
\* * 1.6 + 30pt), the second rounded down to the unit
final_note_height(lines) ==
    IF 624 * lines + 900 <= 5100 THEN 1020 ELSE (624 * lines + 900) \div 5

\* c_insert_final_note (target page "first", no margin wide enough, A4)
CInsertFinalNote ==
    /\ ~button_held /\ doc_open
    /\ next_id + 1 <= MaxIds
    /\ LET recap == build_final_note(scheme, anns)
           lines == 1 + Cardinality(DOMAIN recap.max_by_ex) + 2
                      + (IF recap.max_total > 0 THEN 1 ELSE 0)
           rect == <<60, 120, 840, 120 + final_note_height(lines)>>
       IN anns' = remove_final_note_annotations(anns)
                  \o << TextBox(next_id, 0, rect, lines, <<recap>>, "final_note"),
                        TextBox(next_id + 1, 0, <<72, 132, 552, 192>>, 1, <<>>,
                                "final_note_marker") >>
    /\ next_id' = next_id + 2
    /\ c_regenerate(anns', pdf_mouse_down, draw_kind)
    /\ IdleFrame
    /\ UNCHANGED <<selected_ann_ids, overlay>>

\* c_delete_final_note
CDeleteFinalNote ==
    /\ ~button_held /\ doc_open
    /\ remove_final_note_annotations(anns) # anns
    /\ anns' = remove_final_note_annotations(anns)
    /\ c_regenerate(anns', pdf_mouse_down, draw_kind)
    /\ IdleFrame
    /\ UNCHANGED <<selected_ann_ids, overlay, next_id>>

\* ======================================================================
\* Spec: one document in the viewer, the user at the mouse
\* ======================================================================
\* pointer positions <<page, x, y>>: (50, 30)pt, (60, 45)pt, one pixel right
\* of the first at zoom 6.0, and (50, 30)pt on the second page
PtrPts == {<<0, 300, 180>>, <<0, 360, 270>>, <<0, 301, 180>>, <<1, 300, 180>>}

\* the document as loaded from the project file: it holds the text box
\* [10, 10, 100, 50]pt
LoadedDocs == {<<TextBox(1, 0, <<60, 60, 600, 300>>, 1, <<>>, "")>>}

DialogResults == {<<>>} \cup {<<scheme[i].code, 3>> : i \in DOMAIN scheme}
LeafChoices == {<<>>, <<1, 1>>}

\* the check boxes of "Correction V0" are set there; without a document the
\* list is empty
Init ==
    /\ scheme = SchemeDefault2
    /\ out = [fn |-> "none"]
    /\ doc_open \in BOOLEAN
    /\ anns \in IF doc_open THEN LoadedDocs ELSE {<<>>}
    /\ saved = anns
    /\ next_id = Len(anns) + 1
    /\ subtab \in {"Correction V0", "Infos"}
    /\ c_move_var \in IF subtab = "Correction V0" /\ doc_open THEN BOOLEAN ELSE {FALSE}
    /\ c_align_margin_var \in IF subtab = "Correction V0" /\ doc_open THEN BOOLEAN ELSE {FALSE}
    /\ UiInit

\* what the user, the timer and the toolbar can do, for pointer positions P
\* and tools T
Toolbar(T) ==
    \/ \E v \in T : OnToolCombo(v)
    \/ OnSelToggle
    \/ AnnDeleteSelected
    \/ AnnClearSelection
    \/ CDeleteLast

Pointer(P) ==
    \/ \E p \in P, dlg \in DialogResults, leaf \in LeafChoices :
            PdfClick(p[1], p[2], p[3], dlg, leaf, "good")
    \/ \E p \in P : PdfDrag(p[1], p[2], p[3])
    \/ \E p \in P, nlines \in {0, 1}, img \in BOOLEAN :
            PdfRelease(p[1], p[2], p[3], nlines, img)

Spec == Init /\ [][Toolbar(Tools) \/ Pointer(PtrPts) \/ TimerFire]_vars

\* ======================================================================
\* SpecLive: the same window with the after() callback run fairly (Tk's event
\* loop runs a due callback as soon as no handler is running)
\* ======================================================================
PtrPtsLive == {<<0, 300, 180>>, <<0, 360, 270>>}
ToolsLive == {"none", "ink", "manual_score"}

InitLive ==
    /\ Init
    /\ doc_open
    /\ subtab = "Infos"

SpecLive ==
    /\ InitLive
    /\ [][Toolbar(ToolsLive) \/ Pointer(PtrPtsLive) \/ TimerFire]_vars
    /\ WF_vars(TimerFire)

\* ======================================================================
\* SpecRender: the window of "Correction V0" with a Renderer that can raise
\* (base PDF unreadable, output not writable) at any call
\* ======================================================================
\* the points of the page the pointer goes to
PtrPtsOps == {<<0, 300, 180>>, <<0, 360, 270>>}
ToolsRender == {"none", "ink"}

\* the environment: apply_annotations starts or stops raising
RendererFlips ==
    /\ renderer_fails' = ~renderer_fails
    /\ UNCHANGED <<scoreVars, doc_open, subtab, c_move_var, c_align_margin_var, modeVars,
                   selected_ann_ids, drawVars, moveVars, pdf_mouse_down, corrVars,
                   regenVars, saved, overlay, next_id, button_held, ptr, clicks>>

InitRender ==
    /\ Init
    /\ doc_open
    /\ subtab = "Correction V0"
    /\ ~c_move_var /\ ~c_align_margin_var

SpecRender ==
    InitRender
    /\ [][Toolbar(ToolsRender) \/ Pointer(PtrPtsOps) \/ TimerFire \/ RendererFlips]_vars

\* ======================================================================
\* SpecOps: every operation on the annotation list of a document that
\* starts empty
\* ======================================================================

InitOps ==
    /\ scheme = SchemeDefault2
    /\ out = [fn |-> "none"]
    /\ doc_open = TRUE
    /\ anns = <<>>
    /\ saved = <<>>
    /\ next_id = 1
    /\ subtab = "Correction V0"
    /\ c_move_var = FALSE
    /\ c_align_margin_var = FALSE
    /\ UiInit

SpecOps ==
    InitOps
    /\ [][\/ Toolbar(Tools) \/ Pointer(PtrPtsOps) \/ TimerFire
          \/ \E i \in 1..MaxIds : CDeleteSelected(i)
          \/ \E i \in 1..MaxIds, dlg \in DialogResults : EditManualScore(i, dlg)
          \/ SaveOverlay
          \/ ApplyOverlay
          \/ CInsertFinalNote
          \/ CDeleteFinalNote]_vars

\* ======================================================================
\* SpecScore: the aggregations applied to bounded schemes and lists
\* ======================================================================
\* annotation i of a scored list is ScorePool[i] (ids are the pool indices)
ScorePool ==
    << ScoreCircle(1, 0, 600, 600, <<1, 1>>, "good", 4),
       ScoreCircle(2, 0, 600, 900, <<1, 2>>, "partial", 2),
       ScoreCircle(3, 1, 600, 600, <<3, 1, 1>>, "good", 2),
       ScoreCircle(4, 0, 300, 300, <<9, 1>>, "good", 2),
       ManualScore(5, 0, 300, 1200, <<1>>, 8),
       ManualScore(6, 1, 300, 1200, <<1>>, 3),
       ManualScore(7, 1, 300, 1800, <<3>>, 1),
       ManualScore(8, 1, 300, 2400, <<9>>, 5),
       Ink(9, 0, <<<<300, 180>>, <<360, 270>>>>, 3) >>

InjSeqs(S, n) ==
    UNION {{s \in [1..k -> S] : \A i, j \in 1..k : i # j => s[i] # s[j]} : k \in 0..n}

ScoreLists ==
    {[i \in DOMAIN s |-> ScorePool[s[i]]] : s \in InjSeqs(DOMAIN ScorePool, MaxScoreAnns)}

InitScore ==
    /\ scheme \in SchemePool
    /\ anns \in ScoreLists
    /\ out = [fn |-> "none"]
    /\ doc_open = TRUE
    /\ subtab = "Correction V0"
    /\ c_move_var = FALSE
    /\ c_align_margin_var = FALSE
    /\ saved = anns
    /\ next_id = Len(ScorePool) + 1
    /\ UiInit

\* _refresh_correction_totals: attrib = _doc_attrib_total(), mx = _scheme_max_total()
RunCorrectionTotals ==
    /\ out' = [fn |-> "correction_totals",
               by_ex |-> DocAttribByEx(anns),
               attrib_total |-> doc_attrib_total(anns),
               max_total |-> scheme_max_total(scheme)]
    /\ UNCHANGED <<scheme, anns, uiVars>>

\* _build_final_note_text
RunFinalNote ==
    /\ out' = [fn |-> "final_note"] @@ build_final_note(scheme, anns)
    /\ UNCHANGED <<scheme, anns, uiVars>>

\* _refresh_info_panel
RunInfoPanel ==
    /\ out' = [fn |-> "info_panel"] @@ refresh_info_panel(scheme, anns)
    /\ UNCHANGED <<scheme, anns, uiVars>>

SpecScore == InitScore /\ [][RunCorrectionTotals \/ RunFinalNote \/ RunInfoPanel]_vars

\* ======================================================================
\* SpecPaint: apply_annotations applied to bounded lists
\* ======================================================================
\* pages of the base PDF (doc.page_count)
PageCount == 2

\* _norm_rect, then r.is_empty or r.get_area() <= 1 (pt^2)
rect_too_small(rect) ==
    LET w == Abs(rect[3] - rect[1])
        h == Abs(rect[4] - rect[2])
    IN w = 0 \/ h = 0 \/ w * h <= 36

\* the body of the loop of apply_annotations: does it draw annotation a
paints(a) ==
    IF a.page < 0 \/ a.page >= PageCount THEN FALSE
    ELSE IF a.kind = "score_circle" THEN TRUE
    ELSE IF a.kind = "image" THEN ~rect_too_small(a.rect)
    ELSE IF a.kind = "ink" THEN Len(a.points) >= 2
    ELSE IF a.kind = "textbox" THEN ~rect_too_small(a.rect) /\ a.nlines > 0
    ELSE IF a.kind = "arrow" THEN TRUE
    ELSE FALSE

\* apply_annotations: the ids of the annotations drawn, in drawing order
apply_annotations(as) ==
    LET drawn == SelectIdx(as, {i \in DOMAIN as : paints(as[i])})
    IN [i \in DOMAIN drawn |-> drawn[i].id]

PaintPool ==
    << ScoreCircle(1, 0, 600, 600, <<1, 1>>, "good", 4),
       ManualScore(2, 0, 300, 1200, <<1>>, 8),
       Ink(3, 1, <<<<300, 180>>, <<360, 270>>>>, 3),
       TextBox(4, 0, <<60, 60, 600, 300>>, 1, <<>>, ""),
       Arrow(5, 1, <<300, 180>>, <<360, 270>>, 3),
       Image(6, 0, <<84, -36, 516, 396>>),
       [id |-> 7, kind |-> "highlight", page |-> 0, tag |-> ""],
       ScoreCircle(8, 2, 600, 600, <<1, 2>>, "bad", 0),
       Arrow(9, -1, <<300, 180>>, <<360, 270>>, 3) >>

PaintLists ==
    {[i \in DOMAIN s |-> PaintPool[s[i]]] : s \in InjSeqs(DOMAIN PaintPool, MaxScoreAnns)}

InitPaint ==
    /\ scheme = SchemeDefault2
    /\ anns \in PaintLists
    /\ out = [fn |-> "none"]
    /\ doc_open = TRUE
    /\ subtab = "Correction V0"
    /\ c_move_var = FALSE
    /\ c_align_margin_var = FALSE
    /\ saved = anns
    /\ next_id = Len(PaintPool) + 1
    /\ UiInit

RunApplyAnnotations ==
    /\ out' = [fn |-> "apply_annotations", painted |-> apply_annotations(anns)]
    /\ UNCHANGED <<scheme, anns, uiVars>>

SpecPaint == InitPaint /\ [][RunApplyAnnotations]_vars

\* ======================================================================
\* SpecScheme: the editing operations of the "Notation" tab applied to the
\* scheme, from make_default_scheme(1)
\* ======================================================================
\* largest index of a code the operations may create
MaxIndex == 2

\* every node of a list of nodes, at any depth
RECURSIVE NodesOf(_)
NodesOf(nodes) ==
    IF nodes = <<>> THEN {}
    ELSE {Head(nodes)} \cup NodesOf(Head(nodes).children) \cup NodesOf(Tail(nodes))

IndexWithin(sch) ==
    \A n \in NodesOf(sch) : \A k \in DOMAIN n.code : n.code[k] <= MaxIndex

\* make_default_scheme(1)
SchemeDefault1 ==
    << Node(<<1>>, NoRubric, <<Leaf(<<1, 1>>, 2, 1, 0), Leaf(<<1, 2>>, 2, 1, 0)>>) >>

\* the code selected in the tree, or any code given to the operation
EditCodes == {<<1>>, <<1, 1>>, <<1, 2>>, <<1, 1, 1>>, <<9>>}

\* an operation was applied (a command of the "Notation" tab, no pointer
\* button being held on the page): its outcome, and the scheme saved
Applied(fn, code, r) ==
    /\ ~button_held
    /\ IndexWithin(r.scheme)
    /\ scheme' = r.scheme
    /\ out' = [fn |-> fn, code |-> code, error |-> ~r.ok]
    /\ UNCHANGED <<anns, uiVars>>

\* grading_add_exercise, grading_add_sublevel, grading_add_subsublevel,
\* grading_rename, grading_edit_rubric, grading_delete and
\* grading_delete_exercise, on a code of Codes
SchemeOps(Codes) ==
    \/ Applied("add_exercise", <<>>, add_exercise(scheme))
    \/ \E code \in Codes : Applied("add_sublevel", code, add_sublevel(scheme, code))
    \/ \E code \in Codes : Applied("add_subsublevel", code, add_subsublevel(scheme, code))
    \/ \E code \in Codes : Applied("set_label", code, set_label(scheme, code, 1))
    \/ \E code \in Codes : Applied("set_rubric", code, set_rubric(scheme, code, 4, 2, 0))
    \/ \E code \in Codes : Applied("delete_node", code, delete_node(scheme, code))
    \/ \E code \in Codes : Applied("delete_exercise", code, delete_exercise(scheme, code))

InitScheme ==
    /\ scheme = SchemeDefault1
    /\ out = [fn |-> "none"]
    /\ doc_open = TRUE
    /\ anns = <<>>
    /\ saved = <<>>
    /\ next_id = 1
    /\ subtab = "Correction V0"
    /\ c_move_var = FALSE
    /\ c_align_margin_var = FALSE
    /\ UiInit

SpecScheme == InitScheme /\ [][SchemeOps(EditCodes)]_vars

\* ======================================================================
\* SpecLoaded: the same operations on a scheme read from JSON (the project
\* settings, or a file given to "Importer")
\* ======================================================================
\* Rubric.from_dict: missing entries take the defaults 1.0 / 0.5 / 0.0
rubric_from_dict(d) ==
    Rubric(DictGet(d, "good", 2), DictGet(d, "partial", 1), DictGet(d, "bad", 0))

\* Node.from_dict; a JSON node is [code, label, rubric, children], its rubric
\* a dict (the empty dict standing for null as well: both are falsy)
RECURSIVE node_from_dict(_)
node_from_dict(d) ==
    [code |-> d.code,
     label |-> d.label,
     rubric |-> IF DOMAIN d.rubric # {} THEN rubric_from_dict(d.rubric) ELSE NoRubric,
     children |-> [i \in DOMAIN d.children |-> node_from_dict(d.children[i])]]

\* Scheme.from_dict
scheme_from_dict(d) == [i \in DOMAIN d |-> node_from_dict(d[i])]

JsonNode(code, rubric, children) ==
    [code |-> code, label |-> 0, rubric |-> rubric, children |-> children]

\* make_default_scheme(1) as saved, and a file whose exercise 1 carries a
\* rubric of 2 points and has no sub-level
JsonPool ==
    { << JsonNode(<<1>>, EmptyDict,
            << JsonNode(<<1, 1>>, [good |-> 2, partial |-> 1, bad |-> 0], <<>>),
               JsonNode(<<1, 2>>, [good |-> 2, partial |-> 1, bad |-> 0], <<>>) >>) >>,
      << JsonNode(<<1>>, [good |-> 4], <<>>) >> }

InitLoaded ==
    /\ scheme \in {scheme_from_dict(j) : j \in JsonPool}
    /\ out = [fn |-> "none"]
    /\ doc_open = TRUE
    /\ anns = <<>>
    /\ saved = <<>>
    /\ next_id = 1
    /\ subtab = "Correction V0"
    /\ c_move_var = FALSE
    /\ c_align_margin_var = FALSE
    /\ UiInit

SpecLoaded == InitLoaded /\ [][SchemeOps(EditCodes)]_vars

\* ======================================================================
\* SpecMarks: pastilles are placed in "Correction V0" while the scheme is
\* edited in the "Notation" tab and the totals are refreshed
\* ======================================================================
\* the code selected in the tree of "Notation"
MarkCodes == {<<1, 1>>}

SpecMarks ==
    InitScheme
    /\ [][Pointer(PtrPtsOps) \/ SchemeOps(MarkCodes) \/ RunCorrectionTotals]_vars

\* ======================================================================
\* SpecManual: the tool "manual_score" on a document that already holds
\* manual scores
\* ======================================================================
\* documents as loaded from the project file (ids 11..): pastilles, a text
\* box, manual scores of 8 points for exercises 1 and 2, and a list left with
\* two manual scores for exercise 1
ManualDocs ==
    { << ScoreCircle(11, 0, 600, 600, <<1, 1>>, "good", 2),
         ManualScore(12, 0, 300, 1200, <<1>>, 8),
         ManualScore(13, 0, 300, 1800, <<2>>, 8),
         TextBox(14, 1, <<60, 60, 600, 300>>, 1, <<>>, "") >>,
      << ManualScore(11, 0, 300, 1200, <<1>>, 8),
         ScoreCircle(12, 0, 600, 600, <<1, 2>>, "good", 2),
         ManualScore(13, 1, 300, 1200, <<1>>, 5) >> }

InitManual ==
    /\ scheme = SchemeDefault2
    /\ out = [fn |-> "none"]
    /\ doc_open = TRUE
    /\ anns \in ManualDocs
    /\ saved = anns
    /\ next_id = 1
    /\ subtab = "Infos"
    /\ c_move_var = FALSE
    /\ c_align_margin_var = FALSE
    /\ UiInit

SpecManual ==
    InitManual
    /\ [][Toolbar({"none", "manual_score"}) \/ Pointer(PtrPtsOps) \/ TimerFire]_vars

\* ======================================================================
\* SpecViewer: the PDF viewer, its zoom, its layout and the mapping of canvas
\* points to page points
\* ======================================================================
\* page lengths are in units of 1/330 pt, so that a pixel divided by any zoom
\* of Zooms is a whole number of units; a zoom is the fraction <<num, den>>
PtUnit == 330
\* pixels between two pages of the stack (margin)
LayoutMargin == 12
\* the open document: pages of 10.3 x 7.6 pt and 8 x 7.6 pt (page.rect)
ViewerPages == << [w_pt |-> 3399, h_pt |-> 2508], [w_pt |-> 2640, h_pt |-> 2508] >>

ZoomMin == <<1, 5>>
ZoomMax == <<6, 1>>
ZoomLeq(a, b) == a[1] * b[2] <= b[1] * a[2]
\* max(0.2, min(6.0, z))
clamp_zoom(z) ==
    IF ZoomLeq(z, ZoomMin) THEN ZoomMin ELSE IF ZoomLeq(ZoomMax, z) THEN ZoomMax ELSE z

\* values given to set_zoom: 0.1, 0.2, 0.5, 1/1.1, 1.0, 1.1, 3.0, 6.0, 7.0
Zooms ==
    {<<1, 10>>, <<1, 5>>, <<1, 2>>, <<10, 11>>, <<1, 1>>, <<11, 10>>, <<3, 1>>,
     <<6, 1>>, <<7, 1>>}

\* pix.width, pix.height: the length in points times the zoom as a whole number
\* of pixels, the library rounding it up (up) or down
PixOf(len, zoom, up) ==
    LET n == len * zoom[1]
        d == PtUnit * zoom[2]
    IN IF up /\ n % d # 0 THEN (n \div d) + 1 ELSE n \div d

\* _render_all_pages: the pages stacked from y = 0, LayoutMargin apart
render_all_pages(pages, zoom, up) ==
    LET F[i \in 0..Len(pages)] ==
            IF i = 0 THEN [y |-> 0, layout |-> <<>>]
            ELSE LET prev == F[i - 1]
                     w_px == PixOf(pages[i].w_pt, zoom, up)
                     h_px == PixOf(pages[i].h_pt, zoom, up)
                 IN [y |-> prev.y + h_px + LayoutMargin,
                     layout |-> Append(prev.layout,
                        [page_index |-> i - 1, x0 |-> 0, y0 |-> prev.y,
                         w_px |-> w_px, h_px |-> h_px,
                         w_pt |-> pages[i].w_pt, h_pt |-> pages[i].h_pt])]
    IN F[Len(pages)].layout

\* _canvas_to_pdf, the loop: the first page whose span holds cy or lies below
\* cy, the last page when there is none
page_at(layout, cy) ==
    LET stops == {i \in DOMAIN layout :
                    \/ layout[i].y0 <= cy /\ cy <= layout[i].y0 + layout[i].h_px
                    \/ cy < layout[i].y0}
    IN IF stops = {} THEN layout[Len(layout)]
       ELSE layout[CHOOSE i \in stops : \A j \in stops : i <= j]

Clamp(v, lo, hi) == Max2(lo, Min2(hi, v))

\* variant: no clamping, the residual is divided by the zoom as it is
canvas_to_pdf_unclamped(layout, zoom, cx, cy) ==
    IF layout = <<>> THEN [page |-> 0, x_pt |-> 0, y_pt |-> 0]
    ELSE LET page == page_at(layout, cy)
         IN [page |-> page.page_index,
             x_pt |-> ((cx - page.x0) * zoom[2] * PtUnit) \div zoom[1],
             y_pt |-> ((cy - page.y0) * zoom[2] * PtUnit) \div zoom[1]]

\* variant: pixels are multiplied by the zoom
canvas_to_pdf_times_zoom(layout, zoom, cx, cy) ==
    IF layout = <<>> THEN [page |-> 0, x_pt |-> 0, y_pt |-> 0]
    ELSE LET page == page_at(layout, cy)
             px_x == Clamp(cx - page.x0, 0, page.w_px)
             px_y == Clamp(cy - page.y0, 0, page.h_px)
         IN [page |-> page.page_index,
             x_pt |-> Clamp((px_x * zoom[1] * PtUnit) \div zoom[2], 0, page.w_pt),
             y_pt |-> Clamp((px_y * zoom[1] * PtUnit) \div zoom[2], 0, page.h_pt)]

\* _canvas_to_pdf
canvas_to_pdf(layout, zoom, cx, cy) ==
    IF layout = <<>> THEN [page |-> 0, x_pt |-> 0, y_pt |-> 0]
    ELSE LET page == page_at(layout, cy)
             px_x == Clamp(cx - page.x0, 0, page.w_px)
             px_y == Clamp(cy - page.y0, 0, page.h_px)
         IN [page |-> page.page_index,
             x_pt |-> Clamp((px_x * zoom[2] * PtUnit) \div zoom[1], 0, page.w_pt),
             y_pt |-> Clamp((px_y * zoom[2] * PtUnit) \div zoom[1], 0, page.h_pt)]

\* canvas coordinates of pointer events: around the edges of every page
\* (one pixel outside included) and in its middle
EventXs(layout) ==
    UNION {{layout[i].x0 + d : d \in -1..1}
           \cup {layout[i].x0 + layout[i].w_px + d : d \in -1..1}
           \cup {layout[i].x0 + (layout[i].w_px \div 2)} : i \in DOMAIN layout}
EventYs(layout) ==
    UNION {{layout[i].y0 + d : d \in -1..1}
           \cup {layout[i].y0 + layout[i].h_px + d : d \in -1..1}
           \cup {layout[i].y0 + (layout[i].h_px \div 2)} : i \in DOMAIN layout}

\* open_pdf without preserve_view: zoom 1.0 and a full layout
InitViewer ==
    /\ scheme = SchemeDefault2
    /\ anns = <<>>
    /\ \E up \in BOOLEAN :
         out = [fn |-> "open_pdf", zoom |-> <<1, 1>>, up |-> up,
                layout |-> render_all_pages(ViewerPages, <<1, 1>>, up),
                cx |-> 0, cy |-> 0, page |-> 0, x_pt |-> 0, y_pt |-> 0]
    /\ doc_open = TRUE
    /\ subtab = "Infos"
    /\ c_move_var = FALSE
    /\ c_align_margin_var = FALSE
    /\ saved = anns
    /\ next_id = 1
    /\ UiInit

\* set_zoom: nothing when the clamped value is the current zoom, else the
\* layout is rebuilt
SetZoom(zoom) ==
    /\ clamp_zoom(zoom) # out.zoom
    /\ out' = [fn |-> "set_zoom", zoom |-> clamp_zoom(zoom), up |-> out.up,
                layout |-> render_all_pages(ViewerPages, clamp_zoom(zoom), out.up),
                cx |-> 0, cy |-> 0, page |-> 0, x_pt |-> 0, y_pt |-> 0]
    /\ UNCHANGED <<scheme, anns, uiVars>>

\* _on_click, _on_drag, _on_release: the event is mapped with the current
\* layout and zoom
CanvasEvent(cx, cy) ==
    /\ LET r == canvas_to_pdf(out.layout, out.zoom, cx, cy)
       IN out' = [out EXCEPT !.fn = "canvas_to_pdf", !.cx = cx, !.cy = cy,
                             !.page = r.page, !.x_pt = r.x_pt, !.y_pt = r.y_pt]
    /\ UNCHANGED <<scheme, anns, uiVars>>

SpecViewer ==
    InitViewer
    /\ [][\/ \E zoom \in Zooms : SetZoom(zoom)
          \/ \E cx \in EventXs(out.layout), cy \in EventYs(out.layout) :
                CanvasEvent(cx, cy)]_vars

\* ======================================================================
\* SpecHit: the hit test and the search of the nearest annotation applied to
\* bounded lists and pointer positions
\* ======================================================================
\* two pastilles 20pt apart, a manual score on the first one, a text box, an
\* ink stroke, and an arrow and a pastille on the second page
HitPool ==
    << ScoreCircle(1, 0, 300, 180, <<1, 1>>, "good", 2),
       ScoreCircle(2, 0, 420, 180, <<1, 2>>, "good", 2),
       ManualScore(3, 0, 300, 180, <<1>>, 3),
       TextBox(4, 0, <<60, 60, 600, 300>>, 1, <<>>, ""),
       Arrow(5, 1, <<300, 180>>, <<360, 270>>, 3),
       ScoreCircle(6, 1, 300, 180, <<1, 1>>, "good", 2),
       Ink(7, 0, <<<<300, 180>>, <<360, 270>>>>, 3),
       Image(8, 0, <<540, 120, 780, 360>>) >>

HitLists ==
    {[i \in DOMAIN s |-> HitPool[s[i]]] : s \in InjSeqs(DOMAIN HitPool, MaxScoreAnns)}

\* pointer positions <<page, x, y>>: on the first pastille, midway between
\* the two, at 19pt (radius + 10) and at 19.1667pt of the first one, inside
\* the square around it but not in its disc, far from everything, and on the
\* second page; inside the text box, in the 8pt band left of the picture and
\* 13.3pt from the second pastille, in the corner of the band (8pt, 8pt) off the text box, and 1/6pt beyond it
PtrPtsHit ==
    {<<0, 300, 180>>, <<0, 360, 180>>, <<0, 414, 180>>, <<0, 185, 180>>,
     <<0, 400, 290>>, <<0, 1500, 1500>>, <<1, 300, 180>>,
     <<0, 500, 180>>, <<0, 12, 12>>, <<0, 11, 11>>}

InitHit ==
    /\ scheme = SchemeDefault2
    /\ anns \in HitLists
    /\ out = [fn |-> "none"]
    /\ doc_open = TRUE
    /\ subtab = "Infos"
    /\ c_move_var = FALSE
    /\ c_align_margin_var = FALSE
    /\ saved = anns
    /\ next_id = Len(HitPool) + 1
    /\ UiInit

\* _find_nearest_annotation(page, x, y)
RunFindNearest(page, x, y) ==
    /\ out' = [fn |-> "find_nearest_annotation", page |-> page, x |-> x, y |-> y,
               best |-> find_nearest_annotation(anns, page, x, y)]
    /\ UNCHANGED <<scheme, anns, uiVars>>

\* _hit_test_ann(anns[i], page, x, y)
RunHitTest(i, page, x, y) ==
    /\ i \in DOMAIN anns
    /\ out' = [fn |-> "hit_test_ann", page |-> page, x |-> x, y |-> y, idx |-> i]
                @@ hit_test_ann(anns[i], page, x, y)
    /\ UNCHANGED <<scheme, anns, uiVars>>

SpecHit ==
    InitHit
    /\ [][\/ \E p \in PtrPtsHit : RunFindNearest(p[1], p[2], p[3])
          \/ \E p \in PtrPtsHit, i \in 1..MaxScoreAnns :
                RunHitTest(i, p[1], p[2], p[3])]_vars

\* ======================================================================
\* SpecText: the tool "textbox" with texts of one and two lines
\* ======================================================================
\* pointer positions: (50, 30)pt, 5pt and 10pt right of it, and (110, 90)pt
PtrPtsText == {<<0, 300, 180>>, <<0, 330, 200>>, <<0, 360, 270>>, <<0, 660, 540>>}

SpecText ==
    InitLive
    /\ [][\/ Toolbar({"none", "textbox"})
          \/ \E p \in PtrPtsText : PdfClick(p[1], p[2], p[3], <<>>, <<>>, "good")
          \/ \E p \in PtrPtsText : PdfDrag(p[1], p[2], p[3])
          \/ \E p \in PtrPtsText, nlines \in {0, 1, 2} :
                PdfRelease(p[1], p[2], p[3], nlines, FALSE)
          \/ TimerFire]_vars

\* ======================================================================
\* SpecAlign: annotations dragged in selection mode, "Aligner dans la marge"
\* ticked or not, the sub-tab "Correction V0" or "Infos" shown (the check box
\* keeps its value when the sub-tab changes)
\* ======================================================================
InitAlign ==
    /\ scheme = SchemeDefault2
    /\ out = [fn |-> "none"]
    /\ doc_open = TRUE
    /\ anns \in {<<ScoreCircle(11, 0, 300, 180, <<1, 1>>, "good", 2),
                   ManualScore(12, 0, 360, 270, <<1>>, 3)>>,
                 <<TextBox(11, 0, <<60, 60, 600, 300>>, 1, <<>>, "")>>}
    /\ saved = anns
    /\ next_id = 1
    /\ subtab \in {"Correction V0", "Infos"}
    /\ c_move_var = FALSE
    /\ c_align_margin_var \in BOOLEAN
    /\ UiInit

SpecAlign == InitAlign /\ [][Toolbar(ToolsRender) \/ Pointer(PtrPtsOps) \/ TimerFire]_vars

\* ======================================================================
\* SpecIdle: the window where the insertion at the pointer-up can raise
\* (project.save() fails on a full disk, a Tk call fails)
\* ======================================================================
\* _on_pdf_release, draw branch, when a statement of the try block raises:
\* the except clause shows the message and the finally clause resets the
\* gesture; appended tells whether the ink stroke was already in the list
PdfReleaseRaises(appended) ==
    /\ button_held
    /\ draw_kind \in DrawTools
    /\ doc_open
    /\ draw_page # -1
    /\ button_held' = FALSE
    /\ ptr' = <<>>
    /\ pdf_mouse_down' = FALSE
    /\ IF appended /\ draw_kind = "ink" /\ Len(draw_points) >= 2 /\ next_id <= MaxIds
       THEN /\ anns' = Append(anns, Ink(next_id, draw_page, draw_points, AnnWidth))
            /\ next_id' = next_id + 1
       ELSE UNCHANGED <<anns, next_id>>
    /\ reset_draw_state
    /\ UNCHANGED <<saved, regenVars, corrVars>>
    /\ UNCHANGED <<scheme, out, cfgVars, modeVars, selected_ann_ids, overlay, clicks>>

SpecIdle ==
    Init
    /\ [][\/ Toolbar(Tools)
          \/ Pointer(PtrPtsOps)
          \/ \E appended \in BOOLEAN : PdfReleaseRaises(appended)
          \/ TimerFire]_vars

\* ======================================================================
\* SpecNote: the final note of documents that were saved with and without
\* one
\* ======================================================================
\* c_delete_final_note when nothing is removed: the information box "Aucune
\* note finale a supprimer." is shown and the handler returns
CDeleteFinalNoteNone ==
    /\ ~button_held /\ doc_open
    /\ remove_final_note_annotations(anns) = anns
    /\ out' = [fn |-> "showinfo"]
    /\ UNCHANGED <<scheme, anns, uiVars>>

\* the lists of the project file: empty, an ink stroke alone, and a stroke
\* between the two text boxes of an earlier final note
InitNote ==
    /\ scheme = SchemeDefault2
    /\ out = [fn |-> "none"]
    /\ doc_open = TRUE
    /\ subtab = "Correction V0"
    /\ c_move_var = FALSE
    /\ c_align_margin_var = FALSE
    /\ UiInit
    /\ anns \in {<<>>,
                 <<Ink(12, 0, <<<<300, 180>>, <<360, 270>>>>, AnnWidth)>>,
                 <<TextBox(11, 0, <<60, 120, 840, 1140>>, 5, <<>>, "final_note"),
                   Ink(12, 0, <<<<300, 180>>, <<360, 270>>>>, AnnWidth),
                   TextBox(13, 0, <<72, 132, 552, 192>>, 1, <<>>, "final_note_marker")>>}
    /\ saved = anns
    /\ next_id = 1

SpecNote ==
    InitNote
    /\ [][\/ CInsertFinalNote
          \/ CDeleteFinalNote
          \/ CDeleteFinalNoteNone
          \/ \E v \in ToolsRender : OnToolCombo(v)
          \/ Pointer(PtrPtsOps)
          \/ TimerFire]_vars

\* ======================================================================
\* SpecMove: "Correction V0" with "Mode deplacer une pastille" ticked, on a
\* document that has a pastille at (50, 30)pt and a manual score
\* ======================================================================
InitMove ==
    /\ scheme = SchemeDefault2
    /\ out = [fn |-> "none"]
    /\ doc_open = TRUE
    /\ anns = <<ScoreCircle(11, 0, 300, 180, <<1, 1>>, "good", 2),
                ManualScore(12, 0, 360, 270, <<1>>, 3)>>
    /\ saved = anns
    /\ next_id = 1
    /\ subtab = "Correction V0"
    /\ c_move_var = TRUE
    /\ c_align_margin_var \in BOOLEAN
    /\ UiInit

\* the pointer goes to the pastille, 6pt and 18pt from it, and far away
SpecMove ==
    InitMove /\ [][Toolbar({"none", "textbox"}) \/ Pointer(PtrPtsText) \/ TimerFire]_vars

\* ======================================================================
\* Properties
\* ======================================================================
SchemeExKeys == {scheme[i].code : i \in DOMAIN scheme}

\* positions of the manual_score / score_circle annotations of exercise e
ManualIdx(e) ==
    {i \in DOMAIN anns : /\ anns[i].kind = "manual_score"
                         /\ anns[i].exercise_code # <<>>
                         /\ ExKey(anns[i].exercise_code) = e}
CircleIdx(e) ==
    {i \in DOMAIN anns : /\ anns[i].kind = "score_circle"
                         /\ anns[i].exercise_code # <<>>
                         /\ ExKey(anns[i].exercise_code) = e}
MaxOf(S) == CHOOSE m \in S : \A x \in S : x <= m
PointsAt == [i \in DOMAIN anns |-> anns[i].points]

\* what the score override rule prescribes for exercise e: the manual value
\* (of the manual_score latest in the list) or the sum of its pastilles
ExpectedAttrib(e) ==
    IF ManualIdx(e) # {} THEN anns[MaxOf(ManualIdx(e))].points
    ELSE SumSet(CircleIdx(e), PointsAt)

\* C2: for every scheme exercise, both aggregations (correction totals and
\* final note) attribute the manual value when a manual_score exists, whatever
\* the pastilles under it, and otherwise the sum of the pastilles whose code
\* starts with the exercise's code.
C2_ManualReplacesSum ==
    /\ out.fn = "correction_totals" =>
            \A e \in SchemeExKeys : DictGet(out.by_ex, e, 0) = ExpectedAttrib(e)
    /\ out.fn = "final_note" =>
            \A e \in SchemeExKeys : out.attrib_by_ex[e] = ExpectedAttrib(e)

C2_Witness ==
    /\ out.fn \in {"correction_totals", "final_note"}
    /\ \E e \in SchemeExKeys :
            /\ ManualIdx(e) # {}
            /\ CircleIdx(e) # {}
            /\ SumSet(CircleIdx(e), PointsAt) # anns[MaxOf(ManualIdx(e))].points
    /\ \E e \in SchemeExKeys : ManualIdx(e) = {} /\ Cardinality(CircleIdx(e)) >= 1

RemoveAt(s, i) == SelectIdx(s, DOMAIN s \ {i})

\* pastilles whose exercise is not an exercise of the current scheme
UnknownCircleIdx ==
    {i \in DOMAIN anns : /\ anns[i].kind = "score_circle"
                         /\ anns[i].exercise_code # <<>>
                         /\ ExKey(anns[i].exercise_code) \notin SchemeExKeys}

\* C3: a score_circle whose exercise is not in the scheme contributes nothing:
\* the attributed total equals the total of the list without that pastille.
C3_UnknownCircleIgnored ==
    /\ out.fn = "correction_totals" =>
            \A i \in UnknownCircleIdx :
                out.attrib_total = doc_attrib_total(RemoveAt(anns, i))
    /\ out.fn = "final_note" =>
            \A i \in UnknownCircleIdx :
                out.attrib_total = build_final_note(scheme, RemoveAt(anns, i)).attrib_total

\* the childless depth-1/2 nodes below node n
RECURSIVE LeavesUnder(_)
LeavesUnder(n) ==
    IF n.children = <<>>
    THEN IF Len(n.code) \in {2, 3} THEN {n} ELSE {}
    ELSE UNION {LeavesUnder(n.children[i]) : i \in DOMAIN n.children}

GoodOf == [n \in UNION {LeavesUnder(scheme[i]) : i \in DOMAIN scheme} |->
              IF n.rubric.has THEN n.rubric.good ELSE 2]

ExpectedMaxTotal ==
    SumSeq([i \in DOMAIN scheme |-> SumSet(LeavesUnder(scheme[i]), GoodOf)])

ExpectedAttribOf == [e \in SchemeExKeys |-> ExpectedAttrib(e)]

\* C4: maxTotal is the sum of the good values of the leaves of the scheme,
\* attributedTotal is the sum over the scheme's exercises of their attributed
\* points, and an exercise without any mark adds 0 to the attributed total.
C4_Totals ==
    /\ out.fn \in {"correction_totals", "final_note"} =>
            /\ out.max_total = ExpectedMaxTotal
            /\ out.attrib_total = SumSet(SchemeExKeys, ExpectedAttribOf)
    /\ \A e \in SchemeExKeys :
            (ManualIdx(e) = {} /\ CircleIdx(e) = {}) => ExpectedAttrib(e) = 0

\* the part of C4 that does not depend on marks outside the scheme
C4_MaxTotalPart ==
    out.fn \in {"correction_totals", "final_note"} => out.max_total = ExpectedMaxTotal

C4_AttribPartInScheme ==
    (out.fn \in {"correction_totals", "final_note"} /\ UnknownCircleIdx = {}
        /\ \A i \in DOMAIN anns : anns[i].kind = "manual_score" =>
                ExKey(anns[i].exercise_code) \in SchemeExKeys)
    => out.attrib_total = SumSet(SchemeExKeys, ExpectedAttribOf)

\* ---------------------------------------------------------------- C1
ManualPositions == {i \in DOMAIN anns : anns[i].kind = "manual_score"}

\* C1: whatever operations were applied to the list, it never holds two
\* manual_score annotations of the same top-level exercise.
C1_OneManualPerExercise ==
    \A i, j \in ManualPositions :
        i # j => TopOf(anns[i].exercise_code) # TopOf(anns[j].exercise_code)

\* ---------------------------------------------------------------- C5
\* the annotation under the running move gesture (0 when it is gone)
MoveTarget == IndexOfId(anns, move_ann_id)

Shift(pt, dx, dy) == <<pt[1] + dx, pt[2] + dy>>

\* the geometric fields of annotation a
Geometry(a) ==
    IF a.kind \in CircleKinds THEN <<a.x_pt, a.y_pt>>
    ELSE IF a.kind \in {"textbox", "image"} THEN a.rect
    ELSE IF a.kind = "arrow" THEN <<a.start, a.end>>
    ELSE a.points

\* the geometry of a translated by (dx, dy), field by field
Translated(a, dx, dy) ==
    IF a.kind \in CircleKinds THEN <<a.x_pt + dx, a.y_pt + dy>>
    ELSE IF a.kind \in {"textbox", "image"}
    THEN <<a.rect[1] + dx, a.rect[2] + dy, a.rect[3] + dx, a.rect[4] + dy>>
    ELSE IF a.kind = "arrow" THEN <<Shift(a.start, dx, dy), Shift(a.end, dx, dy)>>
    ELSE [i \in DOMAIN a.points |-> Shift(a.points[i], dx, dy)]

\* a move gesture is running and the pointer's last event was on its page
Dragging ==
    /\ draw_kind = "move" /\ move_active
    /\ ptr # <<>> /\ ptr[1] = draw_page
    /\ MoveTarget # 0

C6_ClickWithoutMoveIsNoOp ==
    [][(button_held /\ ~button_held' /\ draw_kind = "move" /\ ~move_has_moved
            /\ move_snapshot # <<>> /\ MoveTarget # 0)
        => /\ anns'[MoveTarget] = move_snapshot[1]
           /\ saved' = saved
           /\ regen_after_id' = regen_after_id]_vars

\* ---------------------------------------------------------------- C7
\* C7: whenever apply_annotations was started, the pointer-down flag was
\* false and no draw / move gesture was active.
C7_NoRenderDuringInteraction ==
    ~render.mouse_down /\ render.draw_kind = "None"

\* ---------------------------------------------------------------- C8
\* C8: once the button is up, a pending regeneration is eventually run with
\* the current list (or the user starts a new gesture): the condition the
\* callback tests does not stay true after the gesture is over.
C8_EventualRegeneration ==
    []((regen_after_id /\ ~button_held)
         => <>((~regen_after_id /\ render.anns = anns) \/ button_held))

\* ---------------------------------------------------------------- C9
\* C9: when the debounce callback ends a burst of edits by rendering, that is
\* the only Renderer call since the first edit of the burst, and it is given
\* the list as it is after the last edit.
C9_OneRenderPerBurst ==
    [][(burst.open /\ ~burst'.open) => (burst'.renders = 1 /\ render'.anns = anns')]_vars

\* ---------------------------------------------------------------- C10
\* C10: in no reachable state is a tool armed while selection mode is on.
C10_ToolXorSelection == ~(ann_tool_var # "none" /\ sel_mode_var)

\* a tool was armed while selection mode was on with something selected: the
\* trace switched selection mode off
C10_Witness == ann_tool_var # "none" /\ ~sel_mode_var /\ selected_ann_ids # {}

\* ---------------------------------------------------------------- C11
\* C11: immediately after the armed tool changes from "none" to another tool
\* the set of selected annotation ids is empty and no move is armed.
C11_ToolEntryClearsSelection ==
    [][(ann_tool_var = "none" /\ ann_tool_var' # "none")
        => (selected_ann_ids' = {} /\ ~move_active' /\ draw_kind' # "move")]_vars

\* ---------------------------------------------------------------- C12
\* a pointer-down in selection mode, no tool armed, that hits no annotation
MissInSelectionMode ==
    /\ clicks' = clicks + 1
    /\ sel_mode_var /\ ann_tool_var = "none"
    /\ draw_kind' # "move"

\* C12: such a pointer-down only clears the selection: the annotation list is
\* unchanged and no drag is armed, whichever sub-tab is shown.
C12_MissOnlyClearsSelection ==
    [][MissInSelectionMode
        => (anns' = anns /\ selected_ann_ids' = {} /\ ~drag_active' /\ ~move_active')]_vars

\* ---------------------------------------------------------------- C13
\* annotation a has degenerate geometry
Degenerate(a) ==
    \/ a.kind = "ink" /\ Len(a.points) < 2
    \/ a.kind = "arrow" /\ a.start = a.end
    \/ a.kind \in {"textbox", "image"} /\ (a.rect[1] = a.rect[3] \/ a.rect[2] = a.rect[4])

\* C13: the list holds no ink of fewer than 2 points, no arrow whose start
\* equals its end and no text box or image of zero area.
C13_NoDegenerateGeometry ==
    \A i \in DOMAIN anns : ~Degenerate(anns[i])

\* the part of C13 about ink, text boxes and images
C13_NoDegenerateInkOrRect ==
    \A i \in DOMAIN anns : anns[i].kind # "arrow" => ~Degenerate(anns[i])

\* ---------------------------------------------------------------- C14
\* no pointer gesture is in progress
NoGesture == ~button_held /\ draw_kind = "None" /\ ~drag_active

\* C14: whenever no pointer gesture is in progress, the persisted annotation
\* list of the current document equals the list in memory.
C14_PersistedWhenIdle ==
    NoGesture => saved = anns

\* ---------------------------------------------------------------- C15
\* C15: a step taken while the Renderer raises swaps nothing: the "corrected"
\* reference, the current variant and the PDF shown are what they were, the
\* regeneration run by the timer leaves the annotation list alone, and every
\* call of the Renderer that raised is recorded as failed (reported).
C15_FailedRenderSwapsNothing ==
    [][renderer_fails =>
          /\ artifact' = artifact
          /\ (regen_after_id /\ ~regen_after_id') => anns' = anns
          /\ render' # render => render'.failed]_vars

\* a regeneration failed after an earlier one had succeeded with another list
C15_Witness ==
    /\ render.failed
    /\ artifact.corrected # <<>>
    /\ artifact.corrected[1] # render.anns
    /\ artifact.shown = artifact.corrected /\ artifact.variant = "corrected"

\* ---------------------------------------------------------------- C16
KnownKinds == {"score_circle", "manual_score", "ink", "textbox", "arrow", "image"}

\* what C16 requires to be painted: known kind, page of the document, and a
\* geometry that is not degenerate
MustPaint(a) ==
    /\ a.kind \in KnownKinds
    /\ a.page \in 0..(PageCount - 1)
    /\ ~Degenerate(a)

\* C16: the annotations painted are, in list order, exactly those of a known
\* kind whose page exists; the others are skipped.
C16_PaintsEveryKnownKind ==
    out.fn = "apply_annotations" =>
        LET must == SelectIdx(anns, {i \in DOMAIN anns : MustPaint(anns[i])})
        IN out.painted = [i \in DOMAIN must |-> must[i].id]

\* the part of C16 that holds: C16 for the lists without manual_score
C16_PaintsAllButManual ==
    (out.fn = "apply_annotations" /\ \A i \in DOMAIN anns : anns[i].kind # "manual_score") =>
        LET must == SelectIdx(anns, {i \in DOMAIN anns : MustPaint(anns[i])})
        IN out.painted = [i \in DOMAIN must |-> must[i].id]

\* ---------------------------------------------------------------- C17
\* node n is either a parent or a rubric-eligible leaf (childless at depth 1
\* or 2), and not both
ParentXorLeaf(n) ==
    (n.children # <<>>) # (n.children = <<>> /\ Level(n) \in {1, 2})

\* C17: after any sequence of editing operations from a default scheme every
\* node is exactly one of parent / leaf at depth 1 or 2, and no parent
\* carries a rubric.
C17_ParentXorLeaf ==
    \A n \in NodesOf(scheme) :
        /\ ParentXorLeaf(n)
        /\ n.children # <<>> => ~n.rubric.has

\* the part of C17 that holds: no node with children carries a rubric, and
\* no node is deeper than 2
C17_NoRubricOnParent ==
    \A n \in NodesOf(scheme) :
        /\ n.children # <<>> => ~n.rubric.has
        /\ Level(n) <= 2

\* ---------------------------------------------------------------- C18
\* C18: after add_sublevel or add_subsublevel succeeded on a node, that node
\* has no rubric and has children, for any scheme, one read from JSON
\* included.
C18_RubricExclusivity ==
    (out.fn \in {"add_sublevel", "add_subsublevel"} /\ ~out.error) =>
        LET n == find_node(scheme, out.code)[1]
        IN ~n.rubric.has /\ n.children # <<>>

\* ---------------------------------------------------------------- C19
SchemeOpNames ==
    {"add_exercise", "add_sublevel", "add_subsublevel", "set_label", "set_rubric",
     "delete_node", "delete_exercise"}

\* C19: an editing operation that is rejected (set_rubric on a parent, an
\* exercise or an unknown code, add_sublevel on something else than an
\* exercise, add_subsublevel on something else than a depth-1 node) leaves
\* the whole scheme as it was.
C19_RejectedEditMutatesNothing ==
    [][(out'.fn \in SchemeOpNames /\ out'.error) => scheme' = scheme]_vars

\* every kind of rejection was seen: C19_Witness is a rejected add_subsublevel
\* on an existing depth-2 node that carries a rubric
C19_Witness ==
    /\ out.fn = "add_subsublevel" /\ out.error
    /\ find_node(scheme, out.code) # <<>>
    /\ Level(find_node(scheme, out.code)[1]) = 2
    /\ find_node(scheme, out.code)[1].rubric.has

\* ---------------------------------------------------------------- C20
\* C20: the points of a score_circle are the value points_for gave for its
\* leaf and result when it was created; an edit of the scheme (set_rubric,
\* adding or deleting a node) changes neither the list, nor the points of
\* any circle, nor the attributed total computed from the list.
C20_PointsAreSnapshot ==
    [][/\ (Len(anns') = Len(anns) + 1 /\ anns'[Len(anns')].kind = "score_circle") =>
            LET a == anns'[Len(anns')]
            IN a.points = points_for(scheme, a.exercise_code, a.result)
       /\ \A i \in DOMAIN anns :
            (i \in DOMAIN anns' /\ anns'[i].id = anns[i].id
                /\ anns[i].kind = "score_circle") => anns'[i].points = anns[i].points
       /\ scheme' # scheme =>
            /\ anns' = anns
            /\ doc_attrib_total(anns)' = doc_attrib_total(anns)
       /\ (out'.fn = "correction_totals" /\ out' # out) =>
            out'.attrib_total =
                SumSeq([i \in DOMAIN anns |->
                          IF anns[i].kind = "score_circle" THEN anns[i].points ELSE 0])]_vars

\* a pastille placed at 1 point (half points: 2) whose leaf is worth 2
\* points since, the total shown being the 1 point stored
C20_Witness ==
    /\ out.fn = "correction_totals"
    /\ \E i \in DOMAIN anns :
          /\ anns[i].kind = "score_circle"
          /\ anns[i].points = 2
          /\ points_for(scheme, anns[i].exercise_code, anns[i].result) = 4
    /\ out.attrib_total = 2 * Len(anns)

\* ---------------------------------------------------------------- C21
\* the step is an insertion by _add_manual_score_at (the dialog was confirmed)
ManualInserted ==
    clicks' = clicks + 1 /\ ann_tool_var = "manual_score" /\ next_id' = next_id + 1

\* C21: inserting a manual_score for exercise c drops every manual_score the
\* list holds for c and appends the new one, which carries the points entered
\* in the dialog (3 half points); every other annotation is kept, unchanged
\* and in its order.
C21_LaterInsertWins ==
    [][ManualInserted =>
        LET n == Len(anns')
            new == anns'[n]
        IN /\ new.kind = "manual_score" /\ new.id = next_id /\ new.points = 3
           /\ \A i \in 1..(n - 1) :
                ~(anns'[i].kind = "manual_score"
                    /\ TopOf(anns'[i].exercise_code) = new.exercise_code)
           /\ SubSeq(anns', 1, n - 1) =
                SelectIdx(anns, {i \in DOMAIN anns :
                    ~(anns[i].kind = "manual_score"
                        /\ TopOf(anns[i].exercise_code) = new.exercise_code)})]_vars

\* the manual score of 8 points of exercise 1 was replaced by one of 3 half
\* points; the pastille, the manual score of exercise 2 and the text box stay
C21_Witness ==
    /\ Len(anns) = 4
    /\ [i \in 1..4 |-> anns[i].id] = <<11, 13, 14, 1>>
    /\ anns[4].kind = "manual_score" /\ anns[4].exercise_code = <<1>> /\ anns[4].points = 3

\* ---------------------------------------------------------------- C22
\* C22: whatever the canvas point (inside a page, between two pages, outside
\* all of them) and the zoom in [0.2, 6.0], _canvas_to_pdf returns the index
\* of a page of the layout and a point with 0 <= x_pt <= w_pt and
\* 0 <= y_pt <= h_pt of that page.
C22_MappedPointInPage ==
    out.fn = "canvas_to_pdf" =>
        /\ ZoomLeq(ZoomMin, out.zoom) /\ ZoomLeq(out.zoom, ZoomMax)
        /\ \E i \in DOMAIN out.layout :
             /\ out.layout[i].page_index = out.page
             /\ 0 <= out.x_pt /\ out.x_pt <= out.layout[i].w_pt
             /\ 0 <= out.y_pt /\ out.y_pt <= out.layout[i].h_pt

\* an event left of the pages and in the gap between the two pages, at zoom
\* 6.0: it is given to the top-left corner of the second page
C22_Witness ==
    /\ out.fn = "canvas_to_pdf" /\ out.zoom = ZoomMax
    /\ out.cx < 0
    /\ out.cy > out.layout[1].y0 + out.layout[1].h_px /\ out.cy < out.layout[2].y0
    /\ out.page = 1 /\ out.x_pt = 0 /\ out.y_pt = 0

\* ---------------------------------------------------------------- C23
\* the page of the layout that out.page names
MappedPage == out.layout[out.page + 1]

InsidePage(cx, cy) ==
    \E i \in DOMAIN out.layout :
        /\ out.layout[i].x0 <= cx /\ cx <= out.layout[i].x0 + out.layout[i].w_px
        /\ out.layout[i].y0 <= cy /\ cy <= out.layout[i].y0 + out.layout[i].h_px

\* |origin + pt * zoom - c| <= 1 pixel, all terms multiplied by den * PtUnit
BackWithinOnePixel(origin, pt, c) ==
    Abs(pt * out.zoom[1] - (c - origin) * out.zoom[2] * PtUnit) <= out.zoom[2] * PtUnit

\* C23: for a zoom in [0.5, 3.0] and a canvas point inside a rendered page,
\* the point of _canvas_to_pdf taken back to the canvas (page origin + pt x
\* zoom) is the canvas point within one pixel on each axis.
C23_RoundTripWithinOnePixel ==
    (/\ out.fn = "canvas_to_pdf"
     /\ ZoomLeq(<<1, 2>>, out.zoom) /\ ZoomLeq(out.zoom, <<3, 1>>)
     /\ InsidePage(out.cx, out.cy)) =>
        /\ BackWithinOnePixel(MappedPage.x0, out.x_pt, out.cx)
        /\ BackWithinOnePixel(MappedPage.y0, out.y_pt, out.cy)

\* the bottom-right pixel corner of the second page at zoom 3.0, where the
\* image is wider than the page by a fraction of a pixel
C23_Witness ==
    /\ out.fn = "canvas_to_pdf" /\ out.zoom = <<3, 1>> /\ out.page = 1
    /\ out.cx = MappedPage.x0 + MappedPage.w_px
    /\ out.cy = MappedPage.y0 + MappedPage.h_px
    /\ out.y_pt = MappedPage.h_pt
    /\ out.y_pt * 3 < MappedPage.h_px * PtUnit

\* ---------------------------------------------------------------- C24
\* the annotations of the page of the search that the pointer hits
HitsOf(page, x, y) ==
    {i \in DOMAIN anns : anns[i].page = page /\ hit_test_ann(anns[i], page, x, y).hit}

HitD2(i) == hit_test_ann(anns[i], out.page, out.x, out.y).d2

\* C24: _find_nearest_annotation returns none exactly when no annotation of
\* the page is hit; else an annotation of the page that is hit, none that is
\* hit being nearer, and every one before it in the list being farther.
C24_NearestFirstWins ==
    out.fn = "find_nearest_annotation" =>
        LET hits == HitsOf(out.page, out.x, out.y)
        IN /\ out.best = 0 <=> hits = {}
           /\ out.best # 0 =>
                /\ out.best \in hits
                /\ \A j \in hits : ~RatLess(HitD2(j), HitD2(out.best))
                /\ \A j \in hits : j < out.best => RatLess(HitD2(out.best), HitD2(j))

\* the pointer midway between two pastilles of the page, both hit at 10pt:
\* the first of the list is returned, a nearer pastille of the other page
\* being ignored
C24_Witness ==
    /\ out.fn = "find_nearest_annotation" /\ out.page = 0 /\ out.x = 360 /\ out.y = 180
    /\ Len(anns) = 3
    /\ [i \in 1..3 |-> anns[i].id] = <<6, 2, 1>>
    /\ out.best = 2

\* ---------------------------------------------------------------- C25
\* steps by which the centre is moved away from the pointer
MaxAway == 4

\* the annotation tested, its centre at t times its distance from the pointer
\* on the same ray
MovedAway(t) ==
    LET a == anns[out.idx]
    IN [a EXCEPT !.x_pt = out.x + t * (a.x_pt - out.x),
                 !.y_pt = out.y + t * (a.y_pt - out.y)]

HitMoved(t) == hit_test_ann(MovedAway(t), out.page, out.x, out.y)

\* C25: a score_circle or manual_score of the page is hit exactly when the
\* distance from the pointer to its centre is at most radius + 10pt, and the
\* hit distance is that distance; with the centre moved away on the same
\* ray the distance grows strictly while the annotation is hit, and once it
\* is not hit it is not hit farther away.
C25_CircleHitMonotone ==
    (/\ out.fn = "hit_test_ann"
     /\ anns[out.idx].kind \in CircleKinds
     /\ anns[out.idx].page = out.page) =>
        LET a == anns[out.idx]
            dx == out.x - a.x_pt
            dy == out.y - a.y_pt
            thr == a.radius + 60
        IN /\ out.hit <=> dx * dx + dy * dy <= thr * thr
           /\ out.hit => out.d2 = Rat(dx * dx + dy * dy, 1)
           /\ (dx # 0 \/ dy # 0) =>
                \A s, t \in 1..MaxAway :
                    s < t => /\ HitMoved(t).hit => HitMoved(s).hit
                             /\ HitMoved(t).hit => RatLess(HitMoved(s).d2, HitMoved(t).d2)

\* the pointer at exactly 19pt of a pastille of radius 9pt: hit, and not hit
\* any more at twice that distance; in between (the manual score of radius
\* 11pt at 19.1667pt) the distance has grown
C25_Witness ==
    /\ out.fn = "hit_test_ann" /\ out.hit
    /\ anns[out.idx].kind = "score_circle"
    /\ out.d2 = Rat(114 * 114, 1)
    /\ ~HitMoved(2).hit

\* ---------------------------------------------------------------- C26
\* the step commits the text box of a gesture of the tool "textbox"
TextBoxCommitted ==
    /\ draw_kind = "textbox" /\ pdf_mouse_down /\ ~pdf_mouse_down'
    /\ Len(anns') = Len(anns) + 1

\* C26: with a text of n lines and L = max(10, 1.25 x font size) (font size
\* 14: 17.5pt), a gesture under 6pt wide or high commits
\* [x0, y0, x0 + 260, y0 + max(44, 8 + n L + 2)]; a larger one lower than
\* 8 + n L + 2 is given that height; every committed box is at least that
\* high.
C26_TextBoxAutoExpands ==
    [][TextBoxCommitted =>
        LET new == anns'[Len(anns')]
            s == draw_start
            e == draw_end
            need == 48 + new.nlines * Max2(60, 105) + 12
            small == Abs(e[1] - s[1]) < 36 \/ Abs(e[2] - s[2]) < 36
        IN /\ new.kind = "textbox" /\ new.nlines > 0
           /\ small => new.rect = <<s[1], s[2], s[1] + 1560, s[2] + Max2(264, need)>>
           /\ (~small /\ Abs(e[2] - s[2]) < need) =>
                new.rect = <<s[1], s[2], e[1], s[2] + need>>
           /\ (~small /\ Abs(e[2] - s[2]) >= need) => new.rect = <<s[1], s[2], e[1], e[2]>>
           /\ Abs(new.rect[4] - new.rect[2]) >= need]_vars

\* a simple click with a text of two lines: the box is 260pt wide and 45pt
\* high, more than the default 44pt
C26_Witness ==
    \E i \in DOMAIN anns :
        /\ anns[i].kind = "textbox" /\ anns[i].id = 2 /\ anns[i].nlines = 2
        /\ anns[i].rect = <<300, 180, 300 + 1560, 180 + 270>>

\* ---------------------------------------------------------------- C27
\* a pointer-move of a move gesture, on the page of the gesture
DragMoveStep ==
    /\ draw_kind = "move" /\ draw_kind' = "move" /\ move_active
    /\ button_held /\ button_held'
    /\ ptr' # ptr \/ anns' # anns
    /\ ptr'[1] = draw_page
    /\ MoveTarget # 0

\* the pointer-up of a move gesture that moved its annotation
DragReleaseStep ==
    /\ draw_kind = "move" /\ draw_kind' # "move"
    /\ pdf_mouse_down /\ ~pdf_mouse_down'
    /\ MoveTarget # 0
    /\ move_has_moved \/ anns[MoveTarget] # move_snapshot[1]

\* what C27 says of a step, lock telling when the x of a circle is locked
AlignedStep(lock) ==
    LET t == MoveTarget
        snap == move_snapshot[1]
    IN /\ DragMoveStep =>
            LET dx == ptr'[2] - move_anchor[1]
                dy == ptr'[3] - move_anchor[2]
            IN IF snap.kind \in CircleKinds
               THEN /\ anns'[t].x_pt = IF lock THEN MarginX ELSE snap.x_pt + dx
                    /\ anns'[t].y_pt = snap.y_pt + dy
               ELSE Geometry(anns'[t]) = Translated(snap, dx, dy)
       /\ DragReleaseStep =>
            IF snap.kind \in CircleKinds /\ lock
            THEN anns'[t].x_pt = MarginX /\ anns'[t].y_pt = anns[t].y_pt
            ELSE anns'[t] = anns[t]

\* C27 as stated: with "align in margin" on, after every drag move and after
\* the release of a dragged score_circle or manual_score its x is the margin
\* x whatever the pointer's x, its y the snapshot y plus the delta's y;
\* every other kind is translated by the full delta.
C27_AlignedWhenTicked ==
    [][AlignedStep(c_align_margin_var)]_vars

\* C27 as the code has it: the x is locked while "align in margin" is on and
\* the sub-tab "Correction V0" is the one shown; on another sub-tab the
\* circle follows the pointer on both axes.
C27_AlignedInCorrectionTab ==
    [][AlignedStep(AlignLock)]_vars

\* a manual score dragged from (60, 45)pt to (50, 30)pt with the option on in
\* "Correction V0": x at the margin, y 15pt higher
C27_Witness ==
    /\ AlignLock /\ Dragging /\ move_has_moved
    /\ move_snapshot[1].kind = "manual_score"
    /\ move_anchor = <<360, 270>> /\ ptr = <<0, 300, 180>>
    /\ anns[MoveTarget].x_pt = MarginX /\ anns[MoveTarget].y_pt = 180

\* ---- C28
\* Every pointer-up, whatever the gesture and whatever its outcome (committed,
\* degenerate, cancelled, no document, insertion raised), leaves no gesture
\* active: draw kind, page, points, start and end are cleared, the move id,
\* anchor, snapshot and moved flag are reset and the pointer-down flag is off.
PointerUp == button_held /\ ~button_held'

C28_PointerUpEndsIdle ==
    [][PointerUp => (DrawIdle /\ ~pdf_mouse_down)']_vars

\* the pointer-up of an ink gesture whose insertion raised after the stroke
\* was appended: the stroke is in the list, unsaved, and no gesture is left
C28_Witness ==
    /\ ~button_held /\ ptr = <<>> /\ clicks > 0
    /\ DrawIdle /\ ~pdf_mouse_down
    /\ Len(anns) > Len(saved)
    /\ anns[Len(anns)].kind = "ink"

\* ---- C29
\* Ink decimation: during an ink gesture a pointer-move (on the page of the
\* gesture) appends its point exactly when it lies at least 1.2pt from the
\* last recorded point; every ink annotation committed by a draw gesture has
\* at least 2 points, consecutive ones at least 1.2pt apart; an ink gesture
\* whose list still holds the down-point alone commits nothing.
\* at least 1.2pt apart (lengths in 1/6 pt: 7.2 units)
ApartInk(p, q) ==
    25 * ((p[1] - q[1]) * (p[1] - q[1]) + (p[2] - q[2]) * (p[2] - q[2])) >= 36 * 36

InkMove ==
    /\ button_held /\ button_held'
    /\ draw_kind = "ink" /\ draw_points # <<>>

InkMoveDecimated ==
    InkMove =>
        LET p == <<ptr'[2], ptr'[3]>>
        IN draw_points' =
             IF ptr'[1] = draw_page /\ ApartInk(p, draw_points[Len(draw_points)])
             THEN Append(draw_points, p) ELSE draw_points

InkUp == button_held /\ ~button_held' /\ draw_kind = "ink"

\* the stroke committed by the pointer-up is sparse; a lone down-point
\* commits nothing
InkUpCommitsSparse ==
    InkUp =>
        IF Len(draw_points) < 2
        THEN anns' = anns
        ELSE /\ anns' = anns \/ (Len(anns') = Len(anns) + 1 /\ anns'[Len(anns')].kind = "ink")
             /\ Len(anns') > Len(anns) =>
                  LET pts == anns'[Len(anns')].points
                  IN /\ pts = draw_points
                     /\ Len(pts) >= 2
                     /\ \A i \in 1..(Len(pts) - 1) : ApartInk(pts[i], pts[i + 1])

\* the list of a running ink gesture starts at the down-point and is sparse
InkDown ==
    (~button_held /\ button_held' /\ draw_kind' = "ink") =>
        draw_points' = <<<<ptr'[2], ptr'[3]>>>>

C29_InkDecimation == [][InkDown /\ InkMoveDecimated /\ InkUpCommitsSparse]_vars

\* a committed stroke of three points, after a gesture that also went through
\* a point nearer than 1.2pt (one list of four points is not possible)
C29_Witness ==
    /\ ~button_held
    /\ \E i \in DOMAIN anns :
        /\ anns[i].kind = "ink"
        /\ Len(anns[i].points) = 3
        /\ \A k \in 1..2 : ApartInk(anns[i].points[k], anns[i].points[k + 1])

\* ---- C30
\* With a drawing tool (ink, arrow, textbox, image) armed and a document open,
\* a pointer-down, even one on an existing annotation, selects and drags
\* nothing: it empties the selection, begins a draw gesture of the tool's kind
\* seeded at the down-point and leaves every annotation unchanged. With the
\* tool manual_score the pointer-down selects and drags nothing either, but
\* begins no gesture; without a document it changes nothing.
ArmedDown == ~button_held /\ clicks' = clicks + 1 /\ ann_tool_var # "none"

NoDragStarted == draw_kind' # "move" /\ ~move_active' /\ move_ann_id' = 0

SeededAtDown ==
    /\ draw_kind' = ann_tool_var
    /\ button_held'
    /\ draw_page' = ptr'[1]
    /\ IF ann_tool_var = "ink"
       THEN draw_points' = <<<<ptr'[2], ptr'[3]>>>>
       ELSE draw_start' = <<ptr'[2], ptr'[3]>> /\ draw_end' = draw_start'

SpanDist(i, cy) ==
    IF cy < out.layout[i].y0 THEN out.layout[i].y0 - cy
    ELSE IF cy > out.layout[i].y0 + out.layout[i].h_px
    THEN cy - (out.layout[i].y0 + out.layout[i].h_px)
    ELSE 0

C31_PageIsNearest ==
    (out.fn = "canvas_to_pdf" /\ out.layout # <<>>) =>
        \E i \in DOMAIN out.layout :
            /\ out.layout[i].page_index = out.page
            /\ \A j \in DOMAIN out.layout : SpanDist(i, out.cy) <= SpanDist(j, out.cy)

\* ---- C32
\* A gesture is locked to the page of its pointer-down: a pointer-move on
\* another page changes neither the draw state nor the annotations; a drag in
\* selection mode (moves and release) never changes the page of an annotation;
\* the annotation committed by a draw gesture carries the page of the
\* pointer-down wherever the pointer-up occurs.
InGesture == button_held /\ draw_kind \in DrawTools \cup {"move"}

GestureStartsOnPage ==
    (~button_held /\ button_held' /\ draw_kind' \in DrawTools \cup {"move"}) =>
        draw_page' = ptr'[1]

OffPageMoveIgnored ==
    (InGesture /\ button_held' /\ ptr'[1] # draw_page) =>
        UNCHANGED <<anns, drawVars, moveVars>>

MoveKeepsPages ==
    (InGesture /\ draw_kind = "move") =>
        /\ Len(anns') = Len(anns)
        /\ \A i \in DOMAIN anns : anns'[i].page = anns[i].page

CommitOnDownPage ==
    /\ (InGesture /\ button_held') => draw_page' = draw_page
    /\ (InGesture /\ ~button_held' /\ draw_kind \in DrawTools /\ anns' # anns) =>
            /\ Len(anns') = Len(anns) + 1
            /\ anns'[Len(anns')].page = draw_page

C32_GestureLockedToPage ==
    [][GestureStartsOnPage /\ OffPageMoveIgnored /\ MoveKeepsPages /\ CommitOnDownPage]_vars

\* an ink gesture of the first page with two recorded points while the
\* pointer is over the second page
C32_Witness ==
    /\ button_held /\ draw_kind = "ink" /\ draw_page = 0
    /\ ptr # <<>> /\ ptr[1] = 1
    /\ Len(draw_points) = 2

\* ---- C33
\* A drag in selection mode changes only the geometric fields of the dragged
\* annotation: at every pointer-move and at the pointer-up of the gesture its
\* id, kind, page, style, payload, text, exercise code, result and points
\* value, the length and order of the list and every other annotation stay
\* as they were.
GeomFields(kind) ==
    IF kind \in CircleKinds THEN {"x_pt", "y_pt"}
    ELSE IF kind \in {"textbox", "image"} THEN {"rect"}
    ELSE IF kind = "arrow" THEN {"start", "end"}
    ELSE IF kind = "ink" THEN {"points"}
    ELSE {}

NonGeom(a) == [f \in (DOMAIN a) \ GeomFields(a.kind) |-> a[f]]

C33_DragChangesGeometryOnly ==
    [][(button_held /\ draw_kind = "move") =>
        /\ Len(anns') = Len(anns)
        /\ \A i \in DOMAIN anns :
            IF anns[i].id = move_ann_id
            THEN DOMAIN anns'[i] = DOMAIN anns[i] /\ NonGeom(anns'[i]) = NonGeom(anns[i])
            ELSE anns'[i] = anns[i]]_vars

\* a drag that has moved a pastille of the loaded document away from its
\* snapshot, the other annotation being where it was
C33_Witness ==
    /\ button_held /\ draw_kind = "move" /\ move_has_moved
    /\ Len(anns) = 2
    /\ anns[1].id = move_ann_id /\ anns[1] # move_snapshot[1]
    /\ anns[1].kind = "score_circle"
    /\ NonGeom(anns[1]) = NonGeom(move_snapshot[1])
    /\ anns[2].kind = "manual_score"

\* ---- C34
\* The hit distance of a textbox or image is 0 or no hit: it is hit, at
\* distance 0, exactly when the pointer lies in its rectangle grown by 8pt.
\* Whenever such an annotation of the page is hit, _find_nearest_annotation
\* returns an annotation whose hit distance is 0, the first of the list that
\* has one: never a circle, arrow or ink at a positive distance, and never a
\* textbox or image that comes after another one that is hit.
RectKinds == {"textbox", "image"}

InGrownRect(a, x, y) ==
    /\ Min2(a.rect[1], a.rect[3]) - 48 <= x /\ x <= Max2(a.rect[1], a.rect[3]) + 48
    /\ Min2(a.rect[2], a.rect[4]) - 48 <= y /\ y <= Max2(a.rect[2], a.rect[4]) + 48

RectHits == {i \in HitsOf(out.page, out.x, out.y) : anns[i].kind \in RectKinds}

C34_RectHitIsZeroAndWins ==
    /\ (out.fn = "hit_test_ann" /\ anns[out.idx].kind \in RectKinds) =>
            /\ out.hit <=> /\ anns[out.idx].page = out.page
                           /\ InGrownRect(anns[out.idx], out.x, out.y)
            /\ out.d2 = Rat(0, 1)
    /\ (out.fn = "find_nearest_annotation" /\ RectHits # {}) =>
            /\ out.best # 0
            /\ ~RatLess(Rat(0, 1), HitD2(out.best))
            /\ \A j \in HitsOf(out.page, out.x, out.y) :
                    j < out.best => RatLess(Rat(0, 1), HitD2(j))
            /\ anns[out.best].kind \in RectKinds => \A j \in RectHits : out.best <= j

\* the pointer inside the text box and in the band of the picture, 13.3pt
\* from a pastille that comes first in the list: the picture, first of the
\* two rectangles, is returned
C34_Witness ==
    /\ out.fn = "find_nearest_annotation" /\ out.page = 0 /\ out.x = 500 /\ out.y = 180
    /\ Len(anns) = 3
    /\ [i \in 1..3 |-> anns[i].id] = <<2, 8, 4>>
    /\ HitsOf(0, 500, 180) = {1, 2, 3}
    /\ out.best = 2

\* ---- C35
\* The three aggregations agree: for every scheme and annotation list the
\* attributed total of _doc_attrib_total, the total of the final-note text and
\* the total of the info panel are the same number.
C35_TotalsAgree ==
    out.fn \in {"correction_totals", "final_note", "info_panel"} =>
        /\ out.attrib_total = doc_attrib_total(anns)
        /\ out.attrib_total = build_final_note(scheme, anns).attrib_total
        /\ out.attrib_total = refresh_info_panel(scheme, anns).attrib_total

\* ---- C36
\* Node codes stay unique and well-formed: after any sequence of add_exercise,
\* add_sublevel, add_subsublevel, delete_node and delete_exercise from a
\* default scheme no two nodes share a code, the code of every child is the
\* code of its parent followed by one index, and an add operation gives its
\* new node (add_exercise: the exercise and its two children) codes that no
\* node had before the call.
RECURSIVE CodeList(_)
CodeList(nodes) ==
    IF nodes = <<>> THEN <<>>
    ELSE <<Head(nodes).code>> \o CodeList(Head(nodes).children) \o CodeList(Tail(nodes))

CodesUnique ==
    LET cl == CodeList(scheme)
    IN \A i, j \in DOMAIN cl : i # j => cl[i] # cl[j]

CodesWellFormed ==
    /\ \A i \in DOMAIN scheme : Len(scheme[i].code) = 1 /\ scheme[i].code[1] \in Nat \ {0}
    /\ \A n \in NodesOf(scheme) : \A i \in DOMAIN n.children :
            LET c == n.children[i].code
            IN /\ Len(c) = Len(n.code) + 1
               /\ SubSeq(c, 1, Len(n.code)) = n.code
               /\ c[Len(c)] \in Nat \ {0}

AddedNodes(fn) == IF fn = "add_exercise" THEN 3 ELSE 1

AddGivesFreshCodes ==
    (out'.fn \in {"add_exercise", "add_sublevel", "add_subsublevel"} /\ ~out'.error) =>
        LET old == CodeList(scheme)
            new == CodeList(scheme')
        IN /\ Len(new) = Len(old) + AddedNodes(out'.fn)
           /\ Cardinality(Range(new) \ Range(old)) = AddedNodes(out'.fn)

C36_CodesUniqueWellFormed ==
    /\ [](CodesUnique /\ CodesWellFormed)
    /\ [][AddGivesFreshCodes]_vars

\* a second sub-sub-level was added under 1.1 after a second exercise: the
\* scheme holds 1, 1.1, 1.1.1, 1.1.2 and 2, 2.1, 2.2 among its nodes
C36_Witness ==
    /\ out.fn = "add_subsublevel" /\ ~out.error /\ out.code = <<1, 1>>
    /\ {<<1, 1, 1>>, <<1, 1, 2>>, <<2>>, <<2, 1>>, <<2, 2>>} \subseteq Range(CodeList(scheme))

\* ---- C37
\* After c_insert_final_note the list holds exactly one text box tagged
\* final_note and exactly one tagged final_note_marker, the new pair at the
\* end, the earlier ones removed and every other annotation kept in order;
\* c_delete_final_note removes both and saves; when there is none it changes
\* nothing and triggers neither save nor regeneration.
IsNoteBox(a) == a.kind = "textbox" /\ a.tag \in {"final_note", "final_note_marker"}

Tagged(as, tag) == {i \in DOMAIN as : as[i].kind = "textbox" /\ as[i].tag = tag}

OtherThanNote(as) == SelectSeq(as, LAMBDA a : ~IsNoteBox(a))

NoteInserted ==
    next_id' = next_id + 2 =>
        /\ Cardinality(Tagged(anns', "final_note")) = 1
        /\ Cardinality(Tagged(anns', "final_note_marker")) = 1
        /\ Tagged(anns', "final_note") = {Len(anns') - 1}
        /\ Tagged(anns', "final_note_marker") = {Len(anns')}
        /\ OtherThanNote(anns') = OtherThanNote(anns)
        /\ saved' = anns'

NoteDeleted ==
    Len(anns') < Len(anns) =>
        /\ anns' = OtherThanNote(anns)
        /\ saved' = anns'

NoNoteToDelete ==
    (out'.fn = "showinfo" /\ out.fn # "showinfo") =>
        /\ OtherThanNote(anns) = anns
        /\ UNCHANGED <<anns, saved, regenVars, next_id>>

C37_OneFinalNote == [][NoteInserted /\ NoteDeleted /\ NoNoteToDelete]_vars

\* the final note was inserted in the document that already had one: the
\* stroke is first, the new pair follows, the earlier pair is gone
C37_Witness ==
    /\ Len(anns) = 3
    /\ anns[1].kind = "ink" /\ anns[1].id = 12
    /\ anns[2].tag = "final_note" /\ anns[2].id = 1
    /\ anns[3].tag = "final_note_marker" /\ anns[3].id = 2
    /\ saved = anns

\* ---- C38
\* In the mode that moves a pastille, a plain click (pointer-down within 14pt
\* of a score_circle, pointer-up at the same point, no pointer-move between)
\* changes neither the position nor the page of that circle; a pointer-down
\* farther than 14pt from every score_circle of the page arms no drag, and the
\* moves and the pointer-up that follow leave the list unchanged and trigger
\* neither save nor regeneration.
\* a gesture of the pastille mode is running (no tool, no selection drag)
MoveModeHeld ==
    /\ button_held /\ draw_kind = "None"
    /\ subtab = "Correction V0" /\ c_move_var /\ doc_open

\* the pastille armed by the pointer-down is not where the pointer is, on the
\* page of the pointer: no pointer-move has reached it since the pointer-down
ArmedUntouched ==
    /\ MoveModeHeld /\ drag_active
    /\ drag_target_idx \in DOMAIN anns
    /\ anns[drag_target_idx].kind = "score_circle"
    /\ anns[drag_target_idx].page = ptr[1]
    /\ anns[drag_target_idx].y_pt # ptr[3]

\* the step is a pointer-up and what it wrote is what a pointer-up at the
\* point of the pointer-down writes
UpAtDownPoint ==
    /\ ~button_held'
    /\ Len(anns') = Len(anns)
    /\ anns'[drag_target_idx].page = ptr[1]
    /\ anns'[drag_target_idx].y_pt = ptr[3]
    /\ anns'[drag_target_idx].x_pt = IF c_align_margin_var THEN MarginX ELSE ptr[2]

PlainClickKeepsCircle ==
    (ArmedUntouched /\ UpAtDownPoint) => anns'[drag_target_idx] = anns[drag_target_idx]

\* steps of the pointer (move or up) of a gesture that armed nothing
UnarmedGestureIsInert ==
    (MoveModeHeld /\ ~drag_active /\ ptr' # ptr) =>
        UNCHANGED <<anns, saved, regenVars, corrVars>>

C38_PlainClickMovesNothing == [][PlainClickKeepsCircle /\ UnarmedGestureIsInert]_vars

C38_UnarmedPart == [][UnarmedGestureIsInert]_vars

====
